---------------------------- MODULE Spec2Model ----------------------------
(***************************************************************************)
(* Model of the AudioScribeTranslate processing pipeline                   *)
(* (src/src/audioscribetranslate/core/tasks.py): the Celery tasks          *)
(* transcribe_audio, translate_transcript, summarize_translation, the      *)
(* enqueue functions and the full-chain task, running on several worker    *)
(* processes against one shared store.                                     *)
(*                                                                         *)
(* A store transaction becomes visible at its commit, so every action      *)
(* below is one commit (or one task submission) of the code, together      *)
(* with the local computation that precedes it.  Each commit and each      *)
(* submission may raise; the handlers of the code are modelled.            *)
(* Time metrics (processing_seconds, audio_duration_seconds,               *)
(* real_time_factor) are written in the same UPDATE as the text and are    *)
(* not part of the state.                                                  *)
(***************************************************************************)
EXTENDS Integers, Sequences, FiniteSets, TLC

\* ---------------------------------------------------------------- bounds
MaxAudio == 1
NumProcs == 2
MaxTranscripts == 2
MaxTranslations == 2
MaxSummaries == 1

AudioIds == 1..MaxAudio
Procs == 1..NumProcs
TranscriptIds == 1..MaxTranscripts
TranslationIds == 1..MaxTranslations
SummaryIds == 1..MaxSummaries

\* Python's None (for strings) and the absence of an id.
None == "None"
NoId == 0

\* Languages the recogniser may report, and the targets a caller may ask for.
DetectedLangs == {"en", "EN", "fr"}
TargetLangs == {"en", "ru"}

\* str.lower() on the language codes of the model.
Lower(s) == CASE s = "EN" -> "en"
              [] s = "FR" -> "fr"
              [] s = "RU" -> "ru"
              [] OTHER -> s

\* Python truthiness of an Optional[str].
Truthy(s) == s # None /\ s # ""

\* len(text) if text else None
TextChars(s) == IF Truthy(s) THEN Len(s) ELSE -1

\* f"Transcript fallback for audio {audio_id}"
FallbackText(a) == "Transcript fallback for audio " \o ToString(a)

\* A translation stage that stores an empty text.
EmptyTranslation(l) == ""

\* f"Translation placeholder (target={translation_row.target_language})"
TranslationPlaceholder(l) == "Translation placeholder (target=" \o l \o ")"

\* f"Summary placeholder (target={summary_row.target_language})"
SummaryPlaceholder(l) == "Summary placeholder (target=" \o l \o ")"

\* What safe_transcribe can return: (text, language, None) with a possibly
\* empty text, or (None, None, message).
SafeTranscribeResults ==
  [text : {"Hello", ""}, lang : DetectedLangs, err : {None}]
    \cup {[text |-> None, lang |-> None, err |-> "error"]}

VARIABLES
  audio,          \* audio_files: id -> status ("absent": no such row)
  transcripts,    \* transcripts table, a row's id is its index
  translations,   \* translations table
  summaries,      \* summaries table
  submitted,      \* tasks handed to the broker: <<task name, argument>>
  committedDone,  \* history: rows that have been committed with status done
  proc,           \* per process: position and locals of the running call
  monitor,        \* the MemoryMonitor object: configuration and shared fields
  thread,         \* threads running MemoryMonitor code: position and locals
  processes,      \* worker processes of the operating system: pid -> state
  chain,          \* the ProcessingChainManager object
  cthread         \* threads running ProcessingChainManager code

vars == <<audio, transcripts, translations, summaries, submitted,
          committedDone, proc, monitor, thread, processes, chain, cthread>>

store == <<audio, transcripts, translations, summaries>>

chainVars == <<chain, cthread>>

monitorVars == <<monitor, thread, processes, chain, cthread>>

pipelineVars == <<audio, transcripts, translations, summaries, submitted,
                  committedDone, proc>>

\* ------------------------------------------------------------ processes
IdleProc ==
  [pc |-> "idle", op |-> "none", cont |-> "none", aid |-> NoId, tid |-> NoId,
   xid |-> NoId, sid |-> NoId, tlang |-> None, text |-> None, dlang |-> None,
   err |-> None, faults |-> {}, log |-> "none", ret |-> <<>>,
   res |-> <<NoId, NoId, NoId>>, errors |-> 0, mem |-> None,
   enqueue_ok |-> None]

\* The function running in q returns val: to its caller inside the chain task,
\* or to the task runner / API caller (pc = "ret" shows the result).
Return(q, val) ==
  IF q.cont = "none"
    THEN [q EXCEPT !.pc = "ret", !.ret = val, !.text = None, !.dlang = None,
                   !.err = None, !.tlang = None]
    ELSE [q EXCEPT !.pc = q.cont, !.cont = "none", !.ret = val]

\* A chain that swallows the exception and reports completed.
ChainEndsCompleted(q) ==
  [q EXCEPT !.pc = "ret", !.cont = "none", !.ret = <<"completed", q.res, q.errors>>]

\* Lines 675-681: the except clause of process_audio_file_chain and its
\* return: status failed, the message appended to errors.
ChainFailed(q) ==
  [q EXCEPT !.pc = "ret", !.cont = "none", !.errors = q.errors + 1,
            !.ret = <<"failed", q.res, q.errors + 1>>]

\* Line 672 and 681: status completed, whatever errors holds.
ChainCompleted(q) ==
  [q EXCEPT !.pc = "ret", !.cont = "none",
            !.ret = <<"completed", q.res, q.errors>>]

\* The function running in q raises: into the chain task's except clause, or
\* out to the caller.
Raise(q) ==
  IF q.op = "process_audio_file_chain"
    THEN ChainFailed([q EXCEPT !.faults = @ \cup {"store"}])
    ELSE [q EXCEPT !.pc = "ret", !.ret = <<"raised">>, !.faults = @ \cup {"store"}]

TranscriptsOf(a) ==
  {t \in 1..Len(transcripts) : transcripts[t].audio_file_id = a}

TranslationsOf(t) ==
  {x \in 1..Len(translations) : translations[x].transcript_id = t}

SummariesOf(x) ==
  {s \in 1..Len(summaries) : summaries[s].source_translation_id = x}

\* --------------------------------------------------------- MemoryMonitor
\* Memory is measured in steps of 1/MemUnit GB, up to MaxMemoryGb.
MemUnit == 2
MaxMemoryGb == 12
\* Worker counts of a configuration range over 0..MaxWorkers, the memory
\* limit of a worker over 1..MaxWorkerLimitGb, process ids over 1..MaxPids.
MaxWorkers == 3
MaxWorkerLimitGb == 2
MaxPids == 4

Pids == 1 .. MaxPids

\* core/memory_monitor.py 198: 4 GB are left to the system.
SystemReserveGb == 4

\* core/config.py 116-121: the scaling settings and their defaults.
DefaultSettings ==
  [memory_threshold_gb |-> 8, max_workers |-> 6, min_workers |-> 1,
   worker_memory_limit_gb |-> 4, enable_auto_scaling |-> TRUE]

\* core/memory_monitor.py 94-106, MemoryMonitor.__init__: the configuration is
\* copied from the settings, no worker is active, the stop event is clear and
\* there is no monitoring thread.  hostnames keeps, for every process the
\* monitor has spawned, the worker_id its hostname was made of (line 234).
MemoryMonitor(settings) ==
  [memory_threshold_gb |-> settings.memory_threshold_gb,
   max_workers |-> settings.max_workers,
   min_workers |-> settings.min_workers,
   worker_memory_limit_gb |-> settings.worker_memory_limit_gb,
   auto_scaling_enabled |-> settings.enable_auto_scaling,
   active_workers |-> <<>>,
   stop_event |-> FALSE,
   monitoring_thread |-> None,
   hostnames |-> [pid \in Pids |-> NoId]]

\* The threads that run code of the monitor: the caller of its methods (an
\* API request or a test) and the monitoring thread of line 430.
Threads == {"api", "loop"}

\* A thread that runs nothing.  pc is its position, op the method it was
\* called with, cont and after_stop the positions to go on at when
\* scale_workers and stop_worker return; the other fields are the locals of
\* the methods.  failures, stopped, entry_workers, removed and signalled
\* record what the running scale_workers or stop_monitoring call did, raised
\* that an iteration of the loop raised, missed that a spawn of an earlier
\* call failed.
IdleThread ==
  [pc |-> "idle", op |-> "none", cont |-> "ret", after_stop |-> "none",
   target_workers |-> 0, i |-> 0, workers_to_stop |-> 0, worker |-> NoId,
   current_workers |-> 0, snapshot |-> <<>>,
   memory_info |-> 0, optimal_workers |-> 0, previous |-> <<>>,
   failures |-> <<>>, stopped |-> <<>>, entry_workers |-> <<>>,
   removed |-> <<>>, signalled |-> {}, raised |-> FALSE, missed |-> FALSE]

\* core/chain_manager.py 65-71, ProcessingChainManager.__init__: no worker, not
\* running, no monitoring thread.  workers maps a worker number n, for the key
\* "chain_worker_n", to the pid of its process, NoId where the key is absent.
ProcessingChainManager ==
  [workers |-> [n \in Pids |-> NoId],
   is_running |-> FALSE,
   monitor_thread |-> None]

\* The threads that run code of the chain manager: the caller of start() and
\* stop(), and the monitoring threads start() creates (line 228).
ChainLoops == {"loop1", "loop2"}

ChainThreads == {"api"} \cup ChainLoops

\* A thread that runs nothing.  available_memory, queued_files and
\* active_workers are the values should_start_new_worker answered True on,
\* started counts the workers the iteration has started, pending and size are the
\* iteration of stop() over the workers, raised tells that the call ended
\* with an exception.
IdleChainThread ==
  [pc |-> "idle", op |-> "none", available_memory |-> 0, queued_files |-> 0,
   active_workers |-> 0, started |-> 0, pending |-> <<>>, size |-> 0,
   raised |-> FALSE]

InitChainManager ==
  /\ chain = ProcessingChainManager
  /\ cthread = [t \in ChainThreads |-> IdleChainThread]

\* The pipeline: an empty store, nothing submitted, every process idle.
InitPipeline ==
  /\ audio = [a \in AudioIds |-> "absent"]
  /\ transcripts = <<>>
  /\ translations = <<>>
  /\ summaries = <<>>
  /\ submitted = {}
  /\ committedDone = {}
  /\ proc = [p \in Procs |-> IdleProc]

Init ==
  /\ InitPipeline
  /\ InitChainManager
  /\ monitor = MemoryMonitor(DefaultSettings)
  /\ thread = [th \in Threads |-> IdleThread]
  /\ processes = [pid \in Pids |-> "none"]

\* ----------------------------------------------------- transcribe_audio
\* An existence check that only sees finished Transcripts.
ExistingDoneTranscript(a) ==
  \E t \in 1..Len(transcripts) :
    transcripts[t].audio_file_id = a /\ transcripts[t].status = "done"

\* select(Transcript.id).where(Transcript.audio_file_id == audio_id).first()
ExistingTranscript(a) == TranscriptsOf(a) # {}

\* Lines 133-145: the reads at the head of transcribe_audio(a), running in q.
TranscribeEntry(q, a) ==
  LET r == [q EXCEPT !.aid = a, !.tid = NoId, !.xid = NoId, !.text = None,
                     !.dlang = None, !.err = None, !.log = "none"]
  IN IF audio[a] = "absent"
       THEN Return([r EXCEPT !.log = "not found"], <<None>>)
     ELSE IF ExistingTranscript(a)
       THEN Return([r EXCEPT !.log = "skip"], <<None>>)
     ELSE [r EXCEPT !.pc = "t_processing"]

\* The task runner (or a direct caller) invokes transcribe_audio(a).
transcribe_audio(p, a) ==
  /\ proc[p].pc = "idle"
  /\ proc' = [proc EXCEPT ![p] =
                TranscribeEntry([IdleProc EXCEPT !.op = "transcribe_audio"], a)]
  /\ UNCHANGED <<store, submitted, committedDone>>
  /\ UNCHANGED monitorVars

\* Lines 147-153: AudioFile.status = processing, commit.
TranscribeSetProcessing(p) ==
  /\ proc[p].pc = "t_processing"
  /\ \E ok \in BOOLEAN :
       IF ok
         THEN /\ audio' = [audio EXCEPT ![proc[p].aid] = "processing"]
              /\ proc' = [proc EXCEPT ![p].pc = "t_insert"]
         ELSE /\ UNCHANGED audio
              /\ proc' = [proc EXCEPT ![p].pc = "t_failed", ![p].faults = @ \cup {"store"}]
  /\ UNCHANGED <<transcripts, translations, summaries, submitted, committedDone>>
  /\ UNCHANGED monitorVars

\* Lines 160-166: insert the Transcript row in status processing, commit.
TranscribeInsert(p) ==
  /\ proc[p].pc = "t_insert"
  /\ \E ok \in BOOLEAN :
       IF ok
         THEN /\ Len(transcripts) < MaxTranscripts
              /\ transcripts' = Append(transcripts,
                   [audio_file_id |-> proc[p].aid, status |-> "processing",
                    text |-> None, language |-> None, text_chars |-> -1])
              /\ proc' = [proc EXCEPT ![p].pc = "t_infer",
                                      ![p].tid = Len(transcripts) + 1]
         ELSE /\ UNCHANGED transcripts
              /\ proc' = [proc EXCEPT ![p].pc = "t_failed", ![p].faults = @ \cup {"store"}]
  /\ UNCHANGED <<audio, translations, summaries, submitted, committedDone>>
  /\ UNCHANGED monitorVars

\* Lines 168-174: text, lang, err = safe_transcribe(...); it never raises.
TranscribeInfer(p) ==
  /\ proc[p].pc = "t_infer"
  /\ \E r \in SafeTranscribeResults :
       proc' = [proc EXCEPT ![p].pc = "t_finish", ![p].text = r.text,
                            ![p].dlang = r.lang, ![p].err = r.err]
  /\ UNCHANGED <<store, submitted, committedDone>>
  /\ UNCHANGED monitorVars

\* A fallback taken on an inference error only, not on an empty text.
NeedsFallbackOnError(text, err) == err # None

\* Line 185: if err or not text
NeedsFallback(text, err) == err # None \/ ~Truthy(text)

\* Lines 185-194: the text and language that are stored.
FinalText(a, text, err) == IF NeedsFallback(text, err) THEN FallbackText(a) ELSE text

FinalLang(text, lang, err) ==
  IF NeedsFallback(text, err) /\ ~Truthy(lang) THEN "unknown" ELSE lang

\* A language comparison that is case-sensitive.
ShouldAutoTranslateCased(lang) == Truthy(lang) /\ lang # "en"

\* Line 221: if lang and lang.lower() != "en"
ShouldAutoTranslate(lang) == Truthy(lang) /\ Lower(lang) # "en"

\* Lines 185-218: fallback, Transcript and AudioFile set to done, one commit.
TranscribeFinish(p) ==
  /\ proc[p].pc = "t_finish"
  /\ LET q == proc[p]
         text == FinalText(q.aid, q.text, q.err)
         lang == FinalLang(q.text, q.dlang, q.err)
         r == [q EXCEPT !.text = None, !.err = None, !.dlang = lang]
     IN \E ok \in BOOLEAN :
          IF ok
            THEN /\ transcripts' = [transcripts EXCEPT ![q.tid] =
                      [@ EXCEPT !.text = text, !.language = lang,
                                !.status = "done",
                                !.text_chars = TextChars(text)]]
                 /\ audio' = [audio EXCEPT ![q.aid] = "done"]
                 /\ committedDone' = committedDone \cup {<<"transcript", q.tid>>}
                 /\ proc' = [proc EXCEPT ![p] =
                      IF ShouldAutoTranslate(lang)
                        THEN [r EXCEPT !.pc = "t_auto"]
                        ELSE Return([r EXCEPT !.log = "done"], <<None>>)]
            ELSE /\ UNCHANGED <<audio, transcripts, committedDone>>
                 /\ proc' = [proc EXCEPT ![p] =
                      [r EXCEPT !.pc = "t_failed", !.faults = @ \cup {"store"}]]
  /\ UNCHANGED <<translations, summaries, submitted>>
  /\ UNCHANGED monitorVars

\* Lines 222-232 and 239-241: the automatic Translation row (target en,
\* status queued), commit; an exception is rolled back and swallowed.
TranscribeAutoInsert(p) ==
  /\ proc[p].pc = "t_auto"
  /\ LET q == proc[p]
     IN \E ok \in BOOLEAN :
          IF ok
            THEN /\ Len(translations) < MaxTranslations
                 /\ translations' = Append(translations,
                      [transcript_id |-> q.tid, source_language |-> q.dlang,
                       target_language |-> "en", status |-> "queued",
                       text |-> None, text_chars |-> -1])
                 /\ proc' = [proc EXCEPT ![p].pc = "t_delay",
                                         ![p].xid = Len(translations) + 1]
            ELSE /\ UNCHANGED translations
                 /\ proc' = [proc EXCEPT ![p] =
                      Return([q EXCEPT !.log = "done",
                                       !.faults = @ \cup {"store"}], <<None>>)]
  /\ UNCHANGED <<audio, transcripts, summaries, submitted, committedDone>>
  /\ UNCHANGED monitorVars

\* A submission whose exception reaches the stage's failure handler.
TranscribeAutoDelayFailsStage(p) ==
  /\ proc[p].pc = "t_delay"
  /\ \E sent \in BOOLEAN :
       IF sent
         THEN /\ submitted' = submitted \cup {<<"translate_transcript", proc[p].xid>>}
              /\ proc' = [proc EXCEPT ![p] =
                   Return([proc[p] EXCEPT !.log = "done"], <<None>>)]
         ELSE /\ UNCHANGED submitted
              /\ proc' = [proc EXCEPT ![p].pc = "t_failed",
                                      ![p].faults = @ \cup {"broker"}]
  /\ UNCHANGED <<store, committedDone>>
  /\ UNCHANGED monitorVars

\* Lines 233-241: translate_transcript.delay(tr_obj.id); an exception is
\* swallowed, the committed row stays as it is.
TranscribeAutoDelay(p) ==
  /\ proc[p].pc = "t_delay"
  /\ \E sent \in BOOLEAN :
       IF sent
         THEN /\ submitted' = submitted \cup {<<"translate_transcript", proc[p].xid>>}
              /\ proc' = [proc EXCEPT ![p] =
                   Return([proc[p] EXCEPT !.log = "done"], <<None>>)]
         ELSE /\ UNCHANGED submitted
              /\ proc' = [proc EXCEPT ![p] =
                   Return([proc[p] EXCEPT !.log = "done",
                                          !.faults = @ \cup {"broker"}], <<None>>)]
  /\ UNCHANGED <<store, committedDone>>
  /\ UNCHANGED monitorVars

\* A handler that logs the exception and leaves the status as it is.
TranscribeFailedLeavesStatus(p) ==
  /\ proc[p].pc = "t_failed"
  /\ proc' = [proc EXCEPT ![p] = Return([proc[p] EXCEPT !.log = "failed"], <<None>>)]
  /\ UNCHANGED <<store, submitted, committedDone>>
  /\ UNCHANGED monitorVars

\* Lines 242-258: rollback, AudioFile.status = failed, commit (its own
\* exception is rolled back and swallowed).
TranscribeFailed(p) ==
  /\ proc[p].pc = "t_failed"
  /\ \E ok \in BOOLEAN :
       IF ok
         THEN /\ audio' = [audio EXCEPT ![proc[p].aid] = "failed"]
              /\ proc' = [proc EXCEPT ![p] =
                   Return([proc[p] EXCEPT !.log = "failed"], <<None>>)]
         ELSE /\ UNCHANGED audio
              /\ proc' = [proc EXCEPT ![p] =
                   Return([proc[p] EXCEPT !.log = "failed",
                                          !.faults = @ \cup {"handler"}], <<None>>)]
  /\ UNCHANGED <<transcripts, translations, summaries, submitted, committedDone>>
  /\ UNCHANGED monitorVars

\* ------------------------------------------------- translate_transcript
\* Lines 311-313: session.get(Translation, translation_id), running in q.
TranslateEntry(q, x) ==
  LET r == [q EXCEPT !.xid = x, !.log = "none"]
  IN IF x > Len(translations)
       THEN Return([r EXCEPT !.log = "not found"], <<None>>)
       ELSE [r EXCEPT !.pc = "r_processing"]

\* The task runner (or a direct caller) invokes translate_transcript(x).
translate_transcript(p, x) ==
  /\ proc[p].pc = "idle"
  /\ proc' = [proc EXCEPT ![p] =
                TranslateEntry([IdleProc EXCEPT !.op = "translate_transcript"], x)]
  /\ UNCHANGED <<store, submitted, committedDone>>
  /\ UNCHANGED monitorVars

\* Lines 315-320: Translation.status = processing, commit.
TranslateSetProcessing(p) ==
  /\ proc[p].pc = "r_processing"
  /\ \E ok \in BOOLEAN :
       IF ok
         THEN /\ translations' = [translations EXCEPT
                                    ![proc[p].xid].status = "processing"]
              /\ proc' = [proc EXCEPT ![p].pc = "r_done"]
         ELSE /\ UNCHANGED translations
              /\ proc' = [proc EXCEPT ![p].pc = "r_failed", ![p].faults = @ \cup {"store"}]
  /\ UNCHANGED <<audio, transcripts, summaries, submitted, committedDone>>
  /\ UNCHANGED monitorVars

\* Lines 326-346: the placeholder text, Translation.status = done, commit.
TranslateFinish(p) ==
  /\ proc[p].pc = "r_done"
  /\ LET x == proc[p].xid
         text == TranslationPlaceholder(translations[x].target_language)
     IN \E ok \in BOOLEAN :
          IF ok
            THEN /\ translations' = [translations EXCEPT ![x] =
                      [@ EXCEPT !.text = text, !.status = "done",
                                !.text_chars = Len(text)]]
                 /\ committedDone' = committedDone \cup {<<"translation", x>>}
                 /\ proc' = [proc EXCEPT ![p] =
                      Return([proc[p] EXCEPT !.log = "done"], <<None>>)]
            ELSE /\ UNCHANGED <<translations, committedDone>>
                 /\ proc' = [proc EXCEPT ![p].pc = "r_failed", ![p].faults = @ \cup {"store"}]
  /\ UNCHANGED <<audio, transcripts, summaries, submitted>>
  /\ UNCHANGED monitorVars

\* A handler that logs the exception and leaves the status as it is.
TranslateFailedLeavesStatus(p) ==
  /\ proc[p].pc = "r_failed"
  /\ proc' = [proc EXCEPT ![p] = Return([proc[p] EXCEPT !.log = "failed"], <<None>>)]
  /\ UNCHANGED <<store, submitted, committedDone>>
  /\ UNCHANGED monitorVars

\* A handler that also marks the AudioFile of the Translation failed.
TranslateFailedMarksAudio(p) ==
  /\ proc[p].pc = "r_failed"
  /\ LET t == translations[proc[p].xid].transcript_id
     IN \E ok \in BOOLEAN :
          IF ok
            THEN /\ translations' =
                      [translations EXCEPT ![proc[p].xid].status = "failed"]
                 /\ audio' = [audio EXCEPT
                                ![transcripts[t].audio_file_id] = "failed"]
                 /\ proc' = [proc EXCEPT ![p] =
                      Return([proc[p] EXCEPT !.log = "failed"], <<None>>)]
            ELSE /\ UNCHANGED <<translations, audio>>
                 /\ proc' = [proc EXCEPT ![p] =
                      Return([proc[p] EXCEPT !.log = "failed",
                                             !.faults = @ \cup {"handler"}],
                             <<None>>)]
  /\ UNCHANGED <<transcripts, summaries, submitted, committedDone>>
  /\ UNCHANGED monitorVars

\* Lines 347-365: rollback, Translation.status = failed, commit (its own
\* exception is rolled back and swallowed).
TranslateFailed(p) ==
  /\ proc[p].pc = "r_failed"
  /\ \E ok \in BOOLEAN :
       IF ok
         THEN /\ translations' = [translations EXCEPT ![proc[p].xid].status = "failed"]
              /\ proc' = [proc EXCEPT ![p] =
                   Return([proc[p] EXCEPT !.log = "failed"], <<None>>)]
         ELSE /\ UNCHANGED translations
              /\ proc' = [proc EXCEPT ![p] =
                   Return([proc[p] EXCEPT !.log = "failed",
                                          !.faults = @ \cup {"handler"}], <<None>>)]
  /\ UNCHANGED <<audio, transcripts, summaries, submitted, committedDone>>
  /\ UNCHANGED monitorVars

\* ------------------------------------------------ summarize_translation
\* An entry that raises when the Summary row is missing.
SummarizeEntryRaises(q, s) ==
  LET r == [q EXCEPT !.sid = s, !.log = "none"]
  IN IF s > Len(summaries)
       THEN Raise([r EXCEPT !.log = "not found"])
       ELSE [r EXCEPT !.pc = "s_processing"]

\* Lines 446-448: session.get(Summary, summary_id), running in q.
SummarizeEntry(q, s) ==
  LET r == [q EXCEPT !.sid = s, !.log = "none"]
  IN IF s > Len(summaries)
       THEN Return([r EXCEPT !.log = "not found"], <<None>>)
       ELSE [r EXCEPT !.pc = "s_processing"]

\* The task runner (or a direct caller) invokes summarize_translation(s).
summarize_translation(p, s) ==
  /\ proc[p].pc = "idle"
  /\ proc' = [proc EXCEPT ![p] =
                SummarizeEntry([IdleProc EXCEPT !.op = "summarize_translation"], s)]
  /\ UNCHANGED <<store, submitted, committedDone>>
  /\ UNCHANGED monitorVars

\* Lines 449-454: Summary.status = processing, commit.
SummarizeSetProcessing(p) ==
  /\ proc[p].pc = "s_processing"
  /\ \E ok \in BOOLEAN :
       IF ok
         THEN /\ summaries' = [summaries EXCEPT ![proc[p].sid].status = "processing"]
              /\ proc' = [proc EXCEPT ![p].pc = "s_done"]
         ELSE /\ UNCHANGED summaries
              /\ proc' = [proc EXCEPT ![p].pc = "s_failed", ![p].faults = @ \cup {"store"}]
  /\ UNCHANGED <<audio, transcripts, translations, submitted, committedDone>>
  /\ UNCHANGED monitorVars

\* Lines 460-468: the placeholder text, Summary.status = done, commit.
SummarizeFinish(p) ==
  /\ proc[p].pc = "s_done"
  /\ LET s == proc[p].sid
         text == SummaryPlaceholder(summaries[s].target_language)
     IN \E ok \in BOOLEAN :
          IF ok
            THEN /\ summaries' = [summaries EXCEPT ![s] =
                      [@ EXCEPT !.text = text, !.status = "done"]]
                 /\ committedDone' = committedDone \cup {<<"summary", s>>}
                 /\ proc' = [proc EXCEPT ![p] =
                      Return([proc[p] EXCEPT !.log = "done"], <<None>>)]
            ELSE /\ UNCHANGED <<summaries, committedDone>>
                 /\ proc' = [proc EXCEPT ![p].pc = "s_failed", ![p].faults = @ \cup {"store"}]
  /\ UNCHANGED <<audio, transcripts, translations, submitted>>
  /\ UNCHANGED monitorVars

\* Lines 469-487: rollback, Summary.status = failed, commit (its own
\* exception is rolled back and swallowed).
SummarizeFailed(p) ==
  /\ proc[p].pc = "s_failed"
  /\ \E ok \in BOOLEAN :
       IF ok
         THEN /\ summaries' = [summaries EXCEPT ![proc[p].sid].status = "failed"]
              /\ proc' = [proc EXCEPT ![p] =
                   Return([proc[p] EXCEPT !.log = "failed"], <<None>>)]
         ELSE /\ UNCHANGED summaries
              /\ proc' = [proc EXCEPT ![p] =
                   Return([proc[p] EXCEPT !.log = "failed",
                                          !.faults = @ \cup {"handler"}], <<None>>)]
  /\ UNCHANGED <<audio, transcripts, translations, submitted, committedDone>>
  /\ UNCHANGED monitorVars

\* -------------------------------------------------- enqueue_translation
\* A parent check that only asks whether the Transcript exists.
TranscriptExists(t) == t \in 1..Len(transcripts)

\* Line 393: if not transcript or transcript.status != "done"
TranscriptReady(t) == t \in 1..Len(transcripts) /\ transcripts[t].status = "done"

\* Lines 392-394: the parent check of enqueue_translation(t, lang) in q.
EnqueueTranslationEntry(q, t, lang) ==
  LET r == [q EXCEPT !.tid = t, !.tlang = lang, !.xid = NoId]
  IN IF TranscriptReady(t)
       THEN [r EXCEPT !.pc = "et_insert"]
       ELSE Return(r, <<FALSE, NoId>>)

\* An API caller invokes enqueue_translation(t, lang).
enqueue_translation(p, t, lang) ==
  /\ proc[p].pc = "idle"
  /\ proc' = [proc EXCEPT ![p] =
                EnqueueTranslationEntry(
                  [IdleProc EXCEPT !.op = "enqueue_translation"], t, lang)]
  /\ UNCHANGED <<store, submitted, committedDone>>
  /\ UNCHANGED monitorVars

\* Lines 395-403: the Translation row in status queued, commit; an exception
\* here propagates to the caller.
EnqueueTranslationInsert(p) ==
  /\ proc[p].pc = "et_insert"
  /\ LET q == proc[p]
     IN \E ok \in BOOLEAN :
          IF ok
            THEN /\ Len(translations) < MaxTranslations
                 /\ translations' = Append(translations,
                      [transcript_id |-> q.tid,
                       source_language |-> transcripts[q.tid].language,
                       target_language |-> q.tlang, status |-> "queued",
                       text |-> None, text_chars |-> -1])
                 /\ proc' = [proc EXCEPT ![p].pc = "et_delay",
                                         ![p].xid = Len(translations) + 1]
            ELSE /\ UNCHANGED translations
                 /\ proc' = [proc EXCEPT ![p] = Raise(q)]
  /\ UNCHANGED <<audio, transcripts, summaries, submitted, committedDone>>
  /\ UNCHANGED monitorVars

\* A handler that returns the id without marking the row failed.
EnqueueTranslationDelayLeavesQueued(p) ==
  /\ proc[p].pc = "et_delay"
  /\ LET q == proc[p]
     IN \E sent \in BOOLEAN :
          IF sent
            THEN /\ submitted' = submitted \cup {<<"translate_transcript", q.xid>>}
                 /\ proc' = [proc EXCEPT ![p] = Return(q, <<TRUE, q.xid>>)]
            ELSE /\ UNCHANGED submitted
                 /\ proc' = [proc EXCEPT ![p] =
                      Return([q EXCEPT !.faults = @ \cup {"broker"}],
                             <<FALSE, q.xid>>)]
  /\ UNCHANGED <<store, committedDone>>
  /\ UNCHANGED monitorVars

\* Lines 404-419: translate_transcript.delay(row.id); when it raises the row
\* is set to failed and committed (that commit may raise to the caller).
EnqueueTranslationDelay(p) ==
  /\ proc[p].pc = "et_delay"
  /\ LET q == proc[p]
         f == [q EXCEPT !.faults = @ \cup {"broker"}]
     IN \E sent \in BOOLEAN, ok \in BOOLEAN :
          IF sent
            THEN /\ ok
                 /\ submitted' = submitted \cup {<<"translate_transcript", q.xid>>}
                 /\ UNCHANGED translations
                 /\ proc' = [proc EXCEPT ![p] = Return(q, <<TRUE, q.xid>>)]
            ELSE /\ UNCHANGED submitted
                 /\ IF ok
                      THEN /\ translations' = [translations EXCEPT
                                                 ![q.xid].status = "failed"]
                           /\ proc' = [proc EXCEPT ![p] =
                                         Return(f, <<FALSE, q.xid>>)]
                      ELSE /\ UNCHANGED translations
                           /\ proc' = [proc EXCEPT ![p] = Raise(f)]
  /\ UNCHANGED <<audio, transcripts, summaries, committedDone>>
  /\ UNCHANGED monitorVars

\* ------------------------------------------------------ enqueue_summary
\* A parent check that only asks whether the Translation exists.
TranslationExists(x) == x \in 1..Len(translations)

\* A parent check that accepts a Translation still being processed.
TranslationStarted(x) ==
  x \in 1..Len(translations) /\ translations[x].status \in {"processing", "done"}

\* Line 514: if not translation or translation.status != "done"
TranslationReady(x) == x \in 1..Len(translations) /\ translations[x].status = "done"

\* Lines 513-515: the parent check of enqueue_summary(x, lang) in q.
EnqueueSummaryEntry(q, x, lang) ==
  LET r == [q EXCEPT !.xid = x, !.tlang = lang, !.sid = NoId]
  IN IF TranslationReady(x)
       THEN [r EXCEPT !.pc = "es_insert"]
       ELSE Return(r, <<FALSE, NoId>>)

\* An API caller invokes enqueue_summary(x, lang).
enqueue_summary(p, x, lang) ==
  /\ proc[p].pc = "idle"
  /\ proc' = [proc EXCEPT ![p] =
                EnqueueSummaryEntry(
                  [IdleProc EXCEPT !.op = "enqueue_summary"], x, lang)]
  /\ UNCHANGED <<store, submitted, committedDone>>
  /\ UNCHANGED monitorVars

\* Lines 516-524: the Summary row in status queued, commit; an exception here
\* propagates to the caller.  translation.target_language was read at 513.
EnqueueSummaryInsert(p) ==
  /\ proc[p].pc = "es_insert"
  /\ LET q == proc[p]
     IN \E ok \in BOOLEAN :
          IF ok
            THEN /\ Len(summaries) < MaxSummaries
                 /\ summaries' = Append(summaries,
                      [source_translation_id |-> q.xid,
                       base_language |-> translations[q.xid].target_language,
                       target_language |-> q.tlang, status |-> "queued",
                       text |-> None])
                 /\ proc' = [proc EXCEPT ![p].pc = "es_delay",
                                         ![p].sid = Len(summaries) + 1]
            ELSE /\ UNCHANGED summaries
                 /\ proc' = [proc EXCEPT ![p] = Raise(q)]
  /\ UNCHANGED <<audio, transcripts, translations, submitted, committedDone>>
  /\ UNCHANGED monitorVars

\* Lines 525-538: summarize_translation.delay(row.id); when it raises the row
\* is set to failed and committed (that commit may raise to the caller).
EnqueueSummaryDelay(p) ==
  /\ proc[p].pc = "es_delay"
  /\ LET q == proc[p]
         f == [q EXCEPT !.faults = @ \cup {"broker"}]
     IN \E sent \in BOOLEAN, ok \in BOOLEAN :
          IF sent
            THEN /\ ok
                 /\ submitted' = submitted \cup {<<"summarize_translation", q.sid>>}
                 /\ UNCHANGED summaries
                 /\ proc' = [proc EXCEPT ![p] = Return(q, <<TRUE, q.sid>>)]
            ELSE /\ UNCHANGED submitted
                 /\ IF ok
                      THEN /\ summaries' = [summaries EXCEPT
                                              ![q.sid].status = "failed"]
                           /\ proc' = [proc EXCEPT ![p] =
                                         Return(f, <<FALSE, q.sid>>)]
                      ELSE /\ UNCHANGED summaries
                           /\ proc' = [proc EXCEPT ![p] = Raise(f)]
  /\ UNCHANGED <<audio, transcripts, translations, committedDone>>
  /\ UNCHANGED monitorVars

\* --------------------------------------------- process_audio_file_chain
\* Lines 607-610: the chain task calls transcribe_audio(audio_id) inline.
process_audio_file_chain(p, a, lang) ==
  /\ proc[p].pc = "idle"
  /\ proc' = [proc EXCEPT ![p] =
                TranscribeEntry(
                  [IdleProc EXCEPT !.op = "process_audio_file_chain",
                                   !.tlang = lang, !.cont = "c_transcript"], a)]
  /\ UNCHANGED <<store, submitted, committedDone>>
  /\ UNCHANGED monitorVars

\* Lines 616-633: read the Transcript of the audio (scalar_one_or_none raises
\* when there are several), require status done, then call
\* enqueue_translation unless the language already is the target.
ChainAfterTranscribe(p) ==
  /\ proc[p].pc = "c_transcript"
  /\ LET q == proc[p]
         rows == TranscriptsOf(q.aid)
     IN proc' = [proc EXCEPT ![p] =
          IF Cardinality(rows) > 1
            THEN Raise(q)
          ELSE IF rows = {} \/ \E t \in rows : transcripts[t].status # "done"
            THEN Raise(q)
          ELSE LET t == CHOOSE t \in rows : TRUE
                   r == [q EXCEPT !.res = <<t, NoId, NoId>>]
               IN IF q.tlang # transcripts[t].language
                    THEN EnqueueTranslationEntry(
                           [r EXCEPT !.cont = "c_enqueued_tr"], t, q.tlang)
                    ELSE ChainCompleted(r)]
  /\ UNCHANGED <<store, submitted, committedDone>>
  /\ UNCHANGED monitorVars

\* Lines 635-637 and 667-668: run translate_transcript inline when the
\* enqueue succeeded, else record an error and finish.
ChainAfterEnqueueTranslation(p) ==
  /\ proc[p].pc = "c_enqueued_tr"
  /\ LET q == proc[p]
     IN proc' = [proc EXCEPT ![p] =
          IF q.ret[1] /\ q.ret[2] # NoId
            THEN TranslateEntry([q EXCEPT !.cont = "c_translated"], q.ret[2])
            ELSE ChainCompleted([q EXCEPT !.errors = q.errors + 1])]
  /\ UNCHANGED <<store, submitted, committedDone>>
  /\ UNCHANGED monitorVars

\* Lines 640-652: require the Translation done, then call enqueue_summary.
ChainAfterTranslate(p) ==
  /\ proc[p].pc = "c_translated"
  /\ LET q == proc[p]
     IN proc' = [proc EXCEPT ![p] =
          IF translations[q.xid].status # "done"
            THEN Raise(q)
            ELSE EnqueueSummaryEntry(
                   [q EXCEPT !.res = <<q.res[1], q.xid, NoId>>,
                             !.cont = "c_enqueued_sm"], q.xid, q.tlang)]
  /\ UNCHANGED <<store, submitted, committedDone>>
  /\ UNCHANGED monitorVars

\* Lines 654-656 and 665-666: run summarize_translation inline when the
\* enqueue succeeded, else record an error and finish.
ChainAfterEnqueueSummary(p) ==
  /\ proc[p].pc = "c_enqueued_sm"
  /\ LET q == proc[p]
     IN proc' = [proc EXCEPT ![p] =
          IF q.ret[1] /\ q.ret[2] # NoId
            THEN SummarizeEntry([q EXCEPT !.cont = "c_summarized"], q.ret[2])
            ELSE ChainCompleted([q EXCEPT !.errors = q.errors + 1])]
  /\ UNCHANGED <<store, submitted, committedDone>>
  /\ UNCHANGED monitorVars

\* Lines 659-664 and 672: require the Summary done, then finish.
ChainAfterSummarize(p) ==
  /\ proc[p].pc = "c_summarized"
  /\ LET q == proc[p]
     IN proc' = [proc EXCEPT ![p] =
          IF summaries[q.sid].status # "done"
            THEN Raise(q)
            ELSE ChainCompleted([q EXCEPT !.res = <<q.res[1], q.res[2], q.sid>>])]
  /\ UNCHANGED <<store, submitted, committedDone>>
  /\ UNCHANGED monitorVars

\* ------------------------------------------------------- upload handler
\* routers/audio_file.py 94-106: the AudioFile row in status uploaded, commit;
\* q is the calling process's record.
UploadInsert(p, q, a) ==
  /\ audio[a] = "absent"
  /\ \E ok \in BOOLEAN :
       IF ok
         THEN /\ audio' = [audio EXCEPT ![a] = "uploaded"]
              /\ proc' = [proc EXCEPT ![p] = [q EXCEPT !.pc = "u_enqueue"]]
         ELSE /\ UNCHANGED audio
              /\ proc' = [proc EXCEPT ![p] = Raise(q)]
  /\ UNCHANGED <<transcripts, translations, summaries, submitted, committedDone>>
  /\ UNCHANGED monitorVars

\* A client posts a file: routers/audio_file.py upload_audio_file.
upload_audio_file(p, a) ==
  /\ proc[p].pc = "idle"
  /\ UploadInsert(p, [IdleProc EXCEPT !.op = "upload_audio_file", !.aid = a], a)

\* tasks.py 277-284, enqueue_transcription: transcribe_audio.delay(audio_id),
\* True, or False when the submission raises.
UploadEnqueue(p) ==
  /\ proc[p].pc = "u_enqueue"
  /\ LET q == proc[p]
     IN \E sent \in BOOLEAN :
          IF sent
            THEN /\ submitted' = submitted \cup {<<"transcribe_audio", q.aid>>}
                 /\ proc' = [proc EXCEPT ![p].pc = "u_queued"]
            ELSE /\ UNCHANGED submitted
                 /\ proc' = [proc EXCEPT ![p] =
                      Return([q EXCEPT !.faults = @ \cup {"broker"}],
                             <<"queue_failed">>)]
  /\ UNCHANGED <<store, committedDone>>
  /\ UNCHANGED monitorVars

\* routers/audio_file.py 122-133: status = queued, commit.
UploadSetQueued(p) ==
  /\ proc[p].pc = "u_queued"
  /\ LET q == proc[p]
     IN \E ok \in BOOLEAN :
          IF ok
            THEN /\ audio' = [audio EXCEPT ![q.aid] = "queued"]
                 /\ proc' = [proc EXCEPT ![p] = Return(q, <<"queued">>)]
            ELSE /\ UNCHANGED audio
                 /\ proc' = [proc EXCEPT ![p] = Raise(q)]
  /\ UNCHANGED <<transcripts, translations, summaries, submitted, committedDone>>
  /\ UNCHANGED monitorVars

\* The caller has the result; the process is free for the next call.
TaskReturn(p) ==
  /\ proc[p].pc = "ret"
  /\ proc' = [proc EXCEPT ![p] = IdleProc]
  /\ UNCHANGED <<store, submitted, committedDone>>
  /\ UNCHANGED monitorVars

\* ------------------------------------- tests/test_pipeline.py, the driver
\* The test returns: passed, or the line of the assertion that failed.
TestResult(q, val) == [q EXCEPT !.pc = "ret", !.cont = "none", !.ret = val]

\* Lines 43-53: the test uploads a file through the API.
test_full_pipeline_manual(p, a, lang) ==
  /\ proc[p].pc = "idle"
  /\ UploadInsert(p, [IdleProc EXCEPT !.op = "test_full_pipeline_manual",
                                      !.aid = a, !.tlang = lang,
                                      !.cont = "m_uploaded"], a)

\* Lines 52-56: transcribe_audio(audio_id), called directly.
TestAfterUpload(p) ==
  /\ proc[p].pc = "m_uploaded"
  /\ proc' = [proc EXCEPT ![p] =
                TranscribeEntry([proc[p] EXCEPT !.cont = "m_transcribed"],
                                proc[p].aid)]
  /\ UNCHANGED <<store, submitted, committedDone>>
  /\ UNCHANGED monitorVars

\* Lines 59-69: the first Transcript of the audio, then enqueue_translation.
TestAfterTranscribe(p) ==
  /\ proc[p].pc = "m_transcribed"
  /\ LET q == proc[p]
         rows == TranscriptsOf(q.aid)
     IN proc' = [proc EXCEPT ![p] =
          IF rows = {}
            THEN TestResult(q, <<"assert", 63>>)
            ELSE EnqueueTranslationEntry(
                   [q EXCEPT !.cont = "m_enqueued_tr"],
                   CHOOSE t \in rows : \A u \in rows : t <= u, q.tlang)]
  /\ UNCHANGED <<store, submitted, committedDone>>
  /\ UNCHANGED monitorVars

\* Lines 70-73: assert ok and translation_id; translate_transcript(id).
TestAfterEnqueueTranslation(p) ==
  /\ proc[p].pc = "m_enqueued_tr"
  /\ LET q == proc[p]
     IN proc' = [proc EXCEPT ![p] =
          IF q.ret[1] /\ q.ret[2] # NoId
            THEN TranslateEntry([q EXCEPT !.cont = "m_translated"], q.ret[2])
            ELSE TestResult(q, <<"assert", 70>>)]
  /\ UNCHANGED <<store, submitted, committedDone>>
  /\ UNCHANGED monitorVars

\* Lines 75-78: enqueue_summary(translation_id, target).
TestAfterTranslate(p) ==
  /\ proc[p].pc = "m_translated"
  /\ proc' = [proc EXCEPT ![p] =
                EnqueueSummaryEntry([proc[p] EXCEPT !.cont = "m_enqueued_sm"],
                                    proc[p].xid, proc[p].tlang)]
  /\ UNCHANGED <<store, submitted, committedDone>>
  /\ UNCHANGED monitorVars

\* Lines 79-82: assert ok2 and summary_id; summarize_translation(id).
TestAfterEnqueueSummary(p) ==
  /\ proc[p].pc = "m_enqueued_sm"
  /\ LET q == proc[p]
     IN proc' = [proc EXCEPT ![p] =
          IF q.ret[1] /\ q.ret[2] # NoId
            THEN SummarizeEntry([q EXCEPT !.cont = "m_summarized"], q.ret[2])
            ELSE TestResult(q, <<"assert", 79>>)]
  /\ UNCHANGED <<store, submitted, committedDone>>
  /\ UNCHANGED monitorVars

\* Lines 84-88: the final assertions on the Translation and the Summary.
TestAfterSummarize(p) ==
  /\ proc[p].pc = "m_summarized"
  /\ LET q == proc[p]
         tr == translations[q.xid]
         sm == summaries[q.sid]
     IN proc' = [proc EXCEPT ![p] =
          IF ~(Truthy(tr.text) /\ tr.status = "done")
            THEN TestResult(q, <<"assert", 87>>)
          ELSE IF ~(Truthy(sm.text) /\ sm.status = "done")
            THEN TestResult(q, <<"assert", 88>>)
          ELSE TestResult(q, <<"passed", 0>>)]
  /\ UNCHANGED <<store, submitted, committedDone>>
  /\ UNCHANGED monitorVars

\* --------------------------------------------------------- specification
\* The upload handler (an API request).
UploadStep(p) ==
  \/ \E a \in AudioIds : upload_audio_file(p, a)
  \/ UploadEnqueue(p)
  \/ UploadSetQueued(p)

\* The body of transcribe_audio after its entry.
TranscribeBody(p) ==
  \/ TranscribeSetProcessing(p)
  \/ TranscribeInsert(p)
  \/ TranscribeInfer(p)
  \/ TranscribeFinish(p)
  \/ TranscribeAutoInsert(p)
  \/ TranscribeAutoDelay(p)
  \/ TranscribeFailed(p)

\* The body of translate_transcript after its entry.
TranslateBody(p) ==
  \/ TranslateSetProcessing(p)
  \/ TranslateFinish(p)
  \/ TranslateFailed(p)

\* The body of summarize_translation after its entry.
SummarizeBody(p) ==
  \/ SummarizeSetProcessing(p)
  \/ SummarizeFinish(p)
  \/ SummarizeFailed(p)

\* enqueue_translation, called with any transcript id and target.
EnqueueTranslationStep(p) ==
  \/ \E t \in TranscriptIds, l \in TargetLangs : enqueue_translation(p, t, l)
  \/ EnqueueTranslationInsert(p)
  \/ EnqueueTranslationDelay(p)

\* enqueue_summary, called with any translation id and target.
EnqueueSummaryStep(p) ==
  \/ \E x \in TranslationIds, l \in TargetLangs : enqueue_summary(p, x, l)
  \/ EnqueueSummaryInsert(p)
  \/ EnqueueSummaryDelay(p)

\* The full-chain task, invoked with any audio id and target.
ChainStep(p) ==
  \/ \E a \in AudioIds, l \in TargetLangs : process_audio_file_chain(p, a, l)
  \/ ChainAfterTranscribe(p)
  \/ ChainAfterEnqueueTranslation(p)
  \/ ChainAfterTranslate(p)
  \/ ChainAfterEnqueueSummary(p)
  \/ ChainAfterSummarize(p)

\* The test driver.
TestStep(p) ==
  \/ \E a \in AudioIds, l \in TargetLangs : test_full_pipeline_manual(p, a, l)
  \/ TestAfterUpload(p)
  \/ TestAfterTranscribe(p)
  \/ TestAfterEnqueueTranslation(p)
  \/ TestAfterTranslate(p)
  \/ TestAfterEnqueueSummary(p)
  \/ TestAfterSummarize(p)

\* The broker delivers a submitted task to worker p.  Acknowledgement is late
\* (task_acks_late, line 58), so a task may be delivered again.
DeliverTranscribe(p) ==
  \E a \in AudioIds :
    <<"transcribe_audio", a>> \in submitted /\ transcribe_audio(p, a)

DeliverTranslate(p) ==
  \E x \in TranslationIds :
    <<"translate_transcript", x>> \in submitted /\ translate_transcript(p, x)

OthersIdle(p) == \A q \in Procs \ {p} : proc[q].pc = "idle"

\* Spec: upload handlers and the transcription stage, called with any audio
\* id, on concurrent processes.
Next ==
  \E p \in Procs :
    \/ UploadStep(p)
    \/ \E a \in AudioIds : transcribe_audio(p, a)
    \/ TranscribeBody(p)
    \/ TaskReturn(p)

Spec == Init /\ [][Next]_vars

\* SpecSeq: the same calls, one after another: a process takes a step only
\* while every other process is idle.
NextSeq ==
  \E p \in Procs :
    \/ OthersIdle(p) /\ \E a \in AudioIds : upload_audio_file(p, a)
    \/ OthersIdle(p) /\ UploadEnqueue(p)
    \/ OthersIdle(p) /\ UploadSetQueued(p)
    \/ OthersIdle(p) /\ \E a \in AudioIds : transcribe_audio(p, a)
    \/ OthersIdle(p) /\ TranscribeSetProcessing(p)
    \/ OthersIdle(p) /\ TranscribeInsert(p)
    \/ OthersIdle(p) /\ TranscribeInfer(p)
    \/ OthersIdle(p) /\ TranscribeFinish(p)
    \/ OthersIdle(p) /\ TranscribeAutoInsert(p)
    \/ OthersIdle(p) /\ TranscribeAutoDelay(p)
    \/ OthersIdle(p) /\ TranscribeFailed(p)
    \/ OthersIdle(p) /\ TaskReturn(p)

SpecSeq == Init /\ [][NextSeq]_vars

\* SpecApi: an API caller (process 1: upload, enqueue_translation,
\* enqueue_summary) against a worker (process 2) that runs the transcription
\* and translation tasks the broker delivers.
NextApi ==
  \/ UploadStep(1)
  \/ EnqueueTranslationStep(1)
  \/ EnqueueSummaryStep(1)
  \/ TaskReturn(1)
  \/ DeliverTranscribe(2)
  \/ TranscribeBody(2)
  \/ DeliverTranslate(2)
  \/ TranslateBody(2)
  \/ TaskReturn(2)

SpecApi == Init /\ [][NextApi]_vars

\* SpecChain: the full-chain task (process 1, which also uploads) against a
\* worker (process 2) that runs the delivered transcription tasks.
NextChain ==
  \/ UploadStep(1)
  \/ ChainStep(1)
  \/ TranscribeBody(1)
  \/ EnqueueTranslationInsert(1)
  \/ EnqueueTranslationDelay(1)
  \/ TranslateBody(1)
  \/ EnqueueSummaryInsert(1)
  \/ EnqueueSummaryDelay(1)
  \/ SummarizeBody(1)
  \/ TaskReturn(1)
  \/ DeliverTranscribe(2)
  \/ TranscribeBody(2)
  \/ TaskReturn(2)

SpecChain == Init /\ [][NextChain]_vars

\* SpecTest: the test of tests/test_pipeline.py on one process, nothing else
\* running.
NextTest ==
  \/ TestStep(1)
  \/ UploadEnqueue(1)
  \/ UploadSetQueued(1)
  \/ TranscribeBody(1)
  \/ EnqueueTranslationInsert(1)
  \/ EnqueueTranslationDelay(1)
  \/ TranslateBody(1)
  \/ EnqueueSummaryInsert(1)
  \/ EnqueueSummaryDelay(1)
  \/ SummarizeBody(1)
  \/ TaskReturn(1)

SpecTest == Init /\ [][NextTest]_vars

\* ------------------------------------------------------------ properties
\* C1 (SpecSeq): when transcribe_audio invocations run one after another, no
\* audio file ever has more than one Transcript; an invocation on an existing
\* audio file that returns without a store exception (log done or skip) leaves
\* exactly one; and an invocation that starts when a Transcript of the audio
\* exists returns at once, having changed no row and submitted no task.
C1_SequentialIdempotent ==
  [][/\ \A a \in AudioIds : Cardinality(TranscriptsOf(a))' <= 1
     /\ \A p \in Procs :
          /\ (/\ proc'[p].pc = "ret"
              /\ proc'[p].op = "transcribe_audio"
              /\ proc'[p].log \in {"done", "skip"})
             => Cardinality({t \in 1..Len(transcripts') :
                              transcripts'[t].audio_file_id = proc'[p].aid}) = 1
          /\ (/\ proc[p].pc = "idle"
              /\ proc'[p].op = "transcribe_audio"
              /\ TranscriptsOf(proc'[p].aid) # {})
             => /\ proc'[p].pc = "ret"
                /\ proc'[p].log = "skip"
                /\ UNCHANGED <<store, submitted>>]_vars

\* A second invocation has been skipped and the audio has its one Transcript.
C1_Witness ==
  \E p \in Procs :
    /\ proc[p].pc = "ret"
    /\ proc[p].op = "transcribe_audio"
    /\ proc[p].log = "skip"
    /\ Cardinality(TranscriptsOf(proc[p].aid)) = 1
    /\ transcripts[1].status = "done"

\* C2 (Spec): with workers running transcribe_audio concurrently, no audio
\* file ever has more than one Transcript row.
C2_AtMostOneTranscript ==
  \A a \in AudioIds : Cardinality(TranscriptsOf(a)) <= 1

\* C3 (Spec): when safe_transcribe reported an error or an empty text, the
\* commit that ends the inference either raises (a store exception, the only
\* way into the failure handler) or stores Transcript.status = done,
\* Transcript.text = "Transcript fallback for audio <id>" and
\* AudioFile.status = done; the inference step itself never leads to the
\* failure handler, and a stage that returns done leaves its Transcript done
\* with a non-empty text.
C3_FallbackDone ==
  [][\A p \in Procs :
       /\ (/\ proc[p].pc = "t_finish"
           /\ proc'[p] # proc[p]
           /\ (proc[p].err # None \/ proc[p].text = None \/ proc[p].text = ""))
          => \/ /\ proc'[p].pc = "t_failed"
                /\ "store" \in proc'[p].faults
                /\ UNCHANGED store
             \/ /\ proc'[p].pc # "t_failed"
                /\ transcripts'[proc[p].tid].status = "done"
                /\ transcripts'[proc[p].tid].text =
                     "Transcript fallback for audio " \o ToString(proc[p].aid)
                /\ audio'[proc[p].aid] = "done"
       /\ (proc[p].pc = "t_infer" /\ proc'[p] # proc[p])
          => proc'[p].pc = "t_finish"
       /\ proc'[p].pc = "t_failed" => "store" \in proc'[p].faults
       /\ (/\ proc'[p].pc = "ret"
           /\ proc'[p].op = "transcribe_audio"
           /\ proc'[p].log = "done")
          => /\ transcripts'[proc'[p].tid].status = "done"
             /\ transcripts'[proc'[p].tid].text \notin {None, ""}]_vars

\* A stage has returned done after the inference failed: the fallback text is
\* stored and the audio file is done.
C3_Witness ==
  \E p \in Procs :
    /\ proc[p].pc = "ret"
    /\ proc[p].op = "transcribe_audio"
    /\ proc[p].log = "done"
    /\ transcripts[proc[p].tid].language = "unknown"
    /\ transcripts[proc[p].tid].status = "done"
    /\ transcripts[proc[p].tid].text = FallbackText(proc[p].aid)
    /\ audio[proc[p].aid] = "done"

\* C4 (SpecApi): a call enqueue_translation(t, lang) whose Transcript is
\* missing or not in status done returns (False, None) at once, with the
\* translations table and the submitted tasks unchanged.
C4_EnqueueTranslationRefused ==
  [][\A p \in Procs :
       (/\ proc[p].pc = "idle"
        /\ proc'[p].op = "enqueue_translation"
        /\ IF proc'[p].tid \in 1..Len(transcripts)
             THEN transcripts[proc'[p].tid].status # "done"
             ELSE TRUE)
       => /\ proc'[p].pc = "ret"
          /\ proc'[p].ret = <<FALSE, NoId>>
          /\ UNCHANGED <<translations, submitted>>]_vars

\* enqueue_translation was refused for a Transcript that exists but is still
\* being processed.
C4_Witness ==
  \E p \in Procs :
    /\ proc[p].pc = "ret"
    /\ proc[p].op = "enqueue_translation"
    /\ proc[p].ret = <<FALSE, NoId>>
    /\ proc[p].tid \in 1..Len(transcripts)
    /\ transcripts[proc[p].tid].status = "processing"
    /\ translations = <<>>

\* C5 (SpecApi): a call enqueue_summary(x, lang) whose Translation is missing
\* or in any status other than done returns (False, None) at once, with the
\* summaries table and the submitted tasks unchanged.
C5_EnqueueSummaryRefused ==
  [][\A p \in Procs :
       (/\ proc[p].pc = "idle"
        /\ proc'[p].op = "enqueue_summary"
        /\ IF proc'[p].xid \in 1..Len(translations)
             THEN translations[proc'[p].xid].status # "done"
             ELSE TRUE)
       => /\ proc'[p].pc = "ret"
          /\ proc'[p].ret = <<FALSE, NoId>>
          /\ UNCHANGED <<summaries, submitted>>]_vars

\* enqueue_summary was refused for a Translation in status processing.
C5_Witness ==
  \E p \in Procs :
    /\ proc[p].pc = "ret"
    /\ proc[p].op = "enqueue_summary"
    /\ proc[p].ret = <<FALSE, NoId>>
    /\ proc[p].xid \in 1..Len(translations)
    /\ translations[proc[p].xid].status = "processing"
    /\ summaries = <<>>

C7_TranslationTerminal ==
  [][\A x \in 1..Len(translations) :
       translations[x].status \in {"done", "failed"}
       => translations'[x].status = translations[x].status]_vars

\* C8 (SpecApi): every submitted translation task is for a Translation whose
\* Transcript has been committed done (and still is), and every submitted
\* summarization task is for a Summary whose Translation has been committed
\* done.
C8_ParentCommittedDone ==
  /\ \A x \in TranslationIds :
       <<"translate_transcript", x>> \in submitted
       => /\ x <= Len(translations)
          /\ <<"transcript", translations[x].transcript_id>> \in committedDone
          /\ transcripts[translations[x].transcript_id].status = "done"
  /\ \A s \in SummaryIds :
       <<"summarize_translation", s>> \in submitted
       => /\ s <= Len(summaries)
          /\ <<"translation", summaries[s].source_translation_id>> \in committedDone

\* Both kinds of task have been submitted.
C8_Witness ==
  /\ \E x \in TranslationIds : <<"translate_transcript", x>> \in submitted
  /\ \E s \in SummaryIds : <<"summarize_translation", s>> \in submitted

\* C9 (SpecTest): in the scenario of test_full_pipeline_manual (upload,
\* transcribe_audio, enqueue_translation, translate_transcript,
\* enqueue_summary, summarize_translation), as long as no submission and no
\* commit has raised: each enqueue call returns (True, id of the new row), and
\* the scenario ends with its assertions passed and the Transcript, the
\* Translation and the Summary in status done with a non-empty text.
C9_ManualPipeline ==
  \A p \in Procs :
    (proc[p].op = "test_full_pipeline_manual" /\ proc[p].faults = {})
    => /\ proc[p].pc = "m_enqueued_tr"
          => proc[p].ret = <<TRUE, Len(translations)>> /\ translations # <<>>
       /\ proc[p].pc = "m_enqueued_sm"
          => proc[p].ret = <<TRUE, Len(summaries)>> /\ summaries # <<>>
       /\ proc[p].pc = "ret"
          => /\ proc[p].ret = <<"passed", 0>>
             /\ transcripts[proc[p].tid].status = "done"
             /\ transcripts[proc[p].tid].text \notin {None, ""}
             /\ translations[proc[p].xid].status = "done"
             /\ translations[proc[p].xid].text \notin {None, ""}
             /\ summaries[proc[p].sid].status = "done"
             /\ summaries[proc[p].sid].text \notin {None, ""}

\* The scenario has passed on a Transcript that holds the fallback text.
C9_Witness ==
  \E p \in Procs :
    /\ proc[p].pc = "ret"
    /\ proc[p].op = "test_full_pipeline_manual"
    /\ proc[p].faults = {}
    /\ proc[p].ret = <<"passed", 0>>
    /\ transcripts[proc[p].tid].text = FallbackText(proc[p].aid)
    /\ summaries[proc[p].sid].status = "done"

\* C10 (SpecChain): when the chain task comes back from its transcription
\* step and the audio file has no Transcript in status done, the chain has
\* created no Translation and no Summary, and its next step returns status
\* failed with at least one recorded error, leaving the translations and
\* summaries tables and the submitted tasks as they are.
C10_ChainAbortsWithoutTranscript ==
  [][\A p \in Procs :
       (/\ proc[p].pc = "c_transcript"
        /\ proc'[p] # proc[p]
        /\ \A t \in TranscriptsOf(proc[p].aid) : transcripts[t].status # "done")
       => /\ proc[p].xid = NoId
          /\ proc[p].sid = NoId
          /\ proc'[p].pc = "ret"
          /\ proc'[p].ret[1] = "failed"
          /\ proc'[p].ret[2] = <<NoId, NoId, NoId>>
          /\ proc'[p].ret[3] >= 1
          /\ UNCHANGED <<translations, summaries, submitted>>]_vars

\* The chain returned failed for an existing audio file whose Transcript
\* another worker had created and not yet finished.
C10_Witness ==
  \E p \in Procs :
    /\ proc[p].pc = "ret"
    /\ proc[p].op = "process_audio_file_chain"
    /\ proc[p].ret[1] = "failed"
    /\ proc[p].log = "skip"
    /\ TranscriptsOf(proc[p].aid) # {}
    /\ \A t \in TranscriptsOf(proc[p].aid) : transcripts[t].status = "processing"

\* C11 (SpecChain): while a process runs process_audio_file_chain, none of
\* its steps submits a translate_transcript or summarize_translation task.
C11_ChainSubmitsNoStageTask ==
  [][\A p \in Procs :
       (proc[p].op = "process_audio_file_chain" /\ proc'[p] # proc[p])
       => \A task \in submitted' \ submitted :
            task[1] \notin {"translate_transcript", "summarize_translation"}]_vars

DeliverSummarize(p) ==
  \E s \in SummaryIds :
    <<"summarize_translation", s>> \in submitted /\ summarize_translation(p, s)

\* SpecWorker: a caller (process 1) that uploads, runs transcribe_audio
\* directly (its auto-chain creates the Translations) and calls
\* enqueue_summary, against a worker (process 2) that runs the translation
\* and summarization tasks the broker delivers.
NextWorker ==
  \/ UploadStep(1)
  \/ (\E a \in AudioIds : transcribe_audio(1, a))
  \/ TranscribeBody(1)
  \/ EnqueueSummaryStep(1)
  \/ TaskReturn(1)
  \/ DeliverTranslate(2)
  \/ TranslateBody(2)
  \/ DeliverSummarize(2)
  \/ SummarizeBody(2)
  \/ TaskReturn(2)

SpecWorker == Init /\ [][NextWorker]_vars

C15_AutoChainFailureSwallowed ==
  [][\A p \in Procs :
       (/\ proc[p].pc \in {"t_auto", "t_delay"}
        /\ proc'[p] # proc[p]
        /\ proc'[p].faults # {})
       => /\ proc'[p].pc = "ret"
          /\ proc'[p].ret = <<None>>
          /\ proc'[p].log = "done"
          /\ UNCHANGED <<audio, transcripts, translations, submitted>>
          /\ transcripts'[proc[p].tid].status = "done"
          /\ audio'[proc[p].aid] = "done"]_vars

\* The submission of the automatic translation failed: the stage returned
\* done, the Translation row is queued and no task was submitted for it.
C15_Witness ==
  \E p \in Procs :
    /\ proc[p].pc = "ret"
    /\ proc[p].op = "transcribe_audio"
    /\ proc[p].log = "done"
    /\ proc[p].faults = {"broker"}
    /\ audio[proc[p].aid] = "done"
    /\ transcripts[proc[p].tid].status = "done"
    /\ proc[p].xid # NoId
    /\ translations[proc[p].xid].status = "queued"
    /\ <<"translate_transcript", proc[p].xid>> \notin submitted

\* ------------------------------------------------------- admission gate
\* Available memory is read in whole GB, 0..MaxAvailableGb.
MaxAvailableGb == 3

AvailableGb == 0 .. MaxAvailableGb

\* settings.min_free_memory_gb, read at tasks.py 558: the configured minimum
\* of free memory, in GB.
min_free_memory_gb == 2

\* A gate that admits only above the threshold.
MemoryAboveThreshold(available_gb) == available_gb > min_free_memory_gb

\* tasks.py 549-561.
check_memory_available(available_gb) == available_gb >= min_free_memory_gb

\* routers/audio_file.py 113-116 with settings.enable_processing_chains on, and
\* tasks.py 684-713, enqueue_audio_chain(id, "ru"): refuse when memory is
\* short, else send the chain task; an exception of the submission is caught
\* and answered with False.  Lines 122 and 126-133: without enqueue_ok the
\* handler commits nothing more and reports queue_failed.
UploadEnqueueChain(p) ==
  /\ proc[p].pc = "u_enqueue"
  /\ LET q == proc[p]
     IN \E available_gb \in AvailableGb, sent \in BOOLEAN :
          LET m == [q EXCEPT !.mem = available_gb]
          IN IF ~check_memory_available(available_gb)
               THEN /\ UNCHANGED submitted
                    /\ proc' = [proc EXCEPT ![p] =
                         Return([m EXCEPT !.enqueue_ok = FALSE],
                                <<"queue_failed">>)]
             ELSE IF sent
               THEN /\ submitted' = submitted \cup
                                      {<<"process_audio_file_chain", q.aid>>}
                    /\ proc' = [proc EXCEPT ![p] =
                         [m EXCEPT !.pc = "u_queued", !.enqueue_ok = TRUE]]
             ELSE /\ UNCHANGED submitted
                  /\ proc' = [proc EXCEPT ![p] =
                       Return([m EXCEPT !.enqueue_ok = FALSE,
                                        !.faults = @ \cup {"broker"}],
                              <<"queue_failed">>)]
  /\ UNCHANGED <<store, committedDone>>
  /\ UNCHANGED monitorVars

\* The broker delivers a submitted chain task to worker p, with the target
\* language the upload handler passes (routers/audio_file.py 115).
DeliverChain(p) ==
  \E a \in AudioIds :
    /\ <<"process_audio_file_chain", a>> \in submitted
    /\ process_audio_file_chain(p, a, "ru")

\* SpecAdmission: uploads in full-chain mode (process 1) and a chain worker
\* (process 2) that runs the delivered chain tasks.
NextAdmission ==
  \/ (\E a \in AudioIds : upload_audio_file(1, a))
  \/ UploadEnqueueChain(1)
  \/ UploadSetQueued(1)
  \/ TaskReturn(1)
  \/ DeliverChain(2)
  \/ ChainAfterTranscribe(2)
  \/ ChainAfterEnqueueTranslation(2)
  \/ ChainAfterTranslate(2)
  \/ ChainAfterEnqueueSummary(2)
  \/ ChainAfterSummarize(2)
  \/ TranscribeBody(2)
  \/ EnqueueTranslationInsert(2)
  \/ EnqueueTranslationDelay(2)
  \/ TranslateBody(2)
  \/ EnqueueSummaryInsert(2)
  \/ EnqueueSummaryDelay(2)
  \/ SummarizeBody(2)
  \/ TaskReturn(2)

SpecAdmission == Init /\ [][NextAdmission]_vars

\* C16 as stated: enqueue_audio_chain submits the chain task if and only if
\* the memory available at the call is at least the configured minimum; when
\* it refuses it returns False, submits nothing and the AudioFile is not set
\* to queued.
C16_AdmissionIffMemory ==
  [][(proc[1].pc = "u_enqueue" /\ proc'[1] # proc[1]) =>
       /\ (submitted' # submitted) <=>
            proc'[1].mem >= min_free_memory_gb
       /\ proc'[1].mem < min_free_memory_gb =>
            /\ proc'[1].enqueue_ok = FALSE
            /\ submitted' = submitted
            /\ audio' = audio
            /\ proc'[1].pc = "ret"
            /\ proc'[1].ret = <<"queue_failed">>]_vars

\* C16, amended: the chain task is submitted if and only if the memory is at
\* least the minimum and the submission itself does not raise; whenever
\* enqueue_audio_chain answers False, for lack of memory or for a failed
\* submission, the call has submitted nothing and the handler does not set the
\* AudioFile to queued; the status queued is only ever written after True.
C16_AdmissionGate ==
  [][/\ (proc[1].pc = "u_enqueue" /\ proc'[1] # proc[1]) =>
          /\ (submitted' # submitted) <=>
               (/\ proc'[1].mem >= min_free_memory_gb
                /\ "broker" \notin proc'[1].faults)
          /\ (submitted' # submitted) =>
               /\ submitted' = submitted \cup
                    {<<"process_audio_file_chain", proc[1].aid>>}
               /\ proc'[1].enqueue_ok = TRUE
          /\ (submitted' = submitted) =>
               /\ proc'[1].enqueue_ok = FALSE
               /\ audio' = audio
               /\ proc'[1].pc = "ret"
               /\ proc'[1].ret = <<"queue_failed">>
     /\ \A a \in AudioIds :
          (audio'[a] = "queued" /\ audio[a] # "queued") =>
            /\ proc[1].aid = a
            /\ proc[1].enqueue_ok = TRUE
            /\ <<"process_audio_file_chain", a>> \in submitted]_vars

\* An upload was refused for lack of memory: nothing submitted, the AudioFile
\* still uploaded.
C16_Witness ==
  /\ proc[1].op = "upload_audio_file"
  /\ proc[1].pc = "ret"
  /\ proc[1].ret = <<"queue_failed">>
  /\ proc[1].enqueue_ok = FALSE
  /\ proc[1].mem < min_free_memory_gb
  /\ submitted = {}
  /\ audio[proc[1].aid] = "uploaded"

\* ------------------------------------- calculate_optimal_workers (181-218)
\* The builtins max and min, and int() of a quotient with a positive divisor:
\* the quotient is truncated towards zero.
Max(a, b) == IF a >= b THEN a ELSE b

Min(a, b) == IF a <= b THEN a ELSE b

IntTrunc(n, d) == IF n >= 0 THEN n \div d ELSE -((-n) \div d)

\* The operands of the division exchanged.
LimitByMemory(available_for_workers, limit) ==
  IF available_for_workers = 0 THEN 0
  ELSE IF available_for_workers > 0
    THEN IntTrunc(limit, available_for_workers)
    ELSE -IntTrunc(limit, -available_for_workers)

\* Line 201: int(available_for_workers / self.worker_memory_limit_gb); both
\* amounts in steps of 1/MemUnit GB.
WorkersByMemory(available_for_workers, limit) ==
  IntTrunc(available_for_workers, limit)

\* A limit that forgets max_workers.
UnboundedWorkers(m, workers_by_memory) == Max(m.min_workers, workers_by_memory)

\* Lines 204-206.
OptimalWorkers(m, workers_by_memory) ==
  Max(m.min_workers, Min(workers_by_memory, m.max_workers))

\* A threshold that counts the threshold itself as low.
LowMemoryInclusive(m, available) == available <= m.memory_threshold_gb * MemUnit

\* Line 209: memory_info.available_gb < self.memory_threshold_gb.
LowMemory(m, available) == available < m.memory_threshold_gb * MemUnit

\* Lines 194-218, for the monitor object m and available memory in steps.
calculate_optimal_workers(m, available) ==
  IF ~m.auto_scaling_enabled
    THEN m.min_workers
    ELSE LET available_for_workers == available - SystemReserveGb * MemUnit
             workers_by_memory ==
               WorkersByMemory(available_for_workers,
                               m.worker_memory_limit_gb * MemUnit)
             optimal_workers == OptimalWorkers(m, workers_by_memory)
         IN IF LowMemory(m, available)
              THEN Max(m.min_workers, optimal_workers - 1)
              ELSE optimal_workers

\* The memory snapshots and the configurations the computation is run on:
\* min_workers <= max_workers, a positive limit per worker, a threshold
\* below and one above the system reserve.
MemorySamples == 0 .. MaxMemoryGb * MemUnit

Configurations ==
  {s \in [memory_threshold_gb : {SystemReserveGb - 1, 2 * SystemReserveGb},
          max_workers : 0 .. MaxWorkers,
          min_workers : 0 .. MaxWorkers,
          worker_memory_limit_gb : 1 .. MaxWorkerLimitGb,
          enable_auto_scaling : BOOLEAN] :
     s.min_workers <= s.max_workers}

\* The calling thread and the monitoring thread.
api == thread["api"]

loop == thread["loop"]

\* The monitor computes the target for a snapshot (monitoring_loop 374-380,
\* tests/core/test_memory_monitor.py 32-54); the snapshot and target of the
\* computation before are kept.
CalculateOptimalWorkers ==
  /\ api.pc = "idle"
  /\ \E available \in MemorySamples :
       thread' = [thread EXCEPT !["api"] = [api EXCEPT
         !.op = "calculate_optimal_workers",
         !.memory_info = available,
         !.optimal_workers = calculate_optimal_workers(monitor, available),
         !.previous = IF api.op = "calculate_optimal_workers"
                        THEN <<api.memory_info, api.optimal_workers>>
                        ELSE <<>>]]
  /\ UNCHANGED <<pipelineVars, chainVars, monitor, processes>>

\* SpecTarget: a monitor of any configuration computes targets for any
\* snapshots.
InitTarget ==
  /\ InitPipeline
  /\ InitChainManager
  /\ monitor \in {MemoryMonitor(s) : s \in Configurations}
  /\ thread = [th \in Threads |-> IdleThread]
  /\ processes = [pid \in Pids |-> "none"]

NextTarget == CalculateOptimalWorkers

SpecTarget == InitTarget /\ [][NextTarget]_vars

\* C17: for every snapshot and every configuration with min_workers <=
\* max_workers the computed target lies within [min_workers, max_workers],
\* also below the system reserve and below the low-memory threshold.
C17_TargetWithinBounds ==
  api.op = "calculate_optimal_workers" =>
    /\ monitor.min_workers <= api.optimal_workers
    /\ api.optimal_workers <= monitor.max_workers

\* A target computed with auto-scaling on for a snapshot below the reserve
\* and below the threshold, in a configuration with room between the limits.
C17_Witness ==
  /\ api.op = "calculate_optimal_workers"
  /\ monitor.auto_scaling_enabled
  /\ api.memory_info < SystemReserveGb * MemUnit
  /\ api.memory_info < monitor.memory_threshold_gb * MemUnit
  /\ monitor.min_workers < monitor.max_workers
  /\ api.optimal_workers = monitor.min_workers

\* C18: for a fixed configuration, of two snapshots on the same side of the
\* low-memory threshold the one with no less available memory gets no smaller
\* a target.
C18_TargetMonotone ==
  (api.op = "calculate_optimal_workers" /\ Len(api.previous) = 2) =>
    LET available_1 == api.previous[1]
        available_2 == api.memory_info
        threshold == monitor.memory_threshold_gb * MemUnit
    IN (/\ available_1 <= available_2
        /\ (available_1 < threshold) <=> (available_2 < threshold)) =>
         api.previous[2] <= api.optimal_workers

\* Two snapshots on the same side of the threshold, the second with more
\* memory and a larger target.
C18_Witness ==
  /\ api.op = "calculate_optimal_workers"
  /\ Len(api.previous) = 2
  /\ api.previous[1] < api.memory_info
  /\ api.memory_info < monitor.memory_threshold_gb * MemUnit
  /\ api.previous[2] < api.optimal_workers

\* C19: the target equals the reference rule: min_workers with auto-scaling
\* off; else floor((available - 4) / limit per worker) clamped to
\* [min_workers, max_workers], less one but not below min_workers when
\* available memory is below the low-memory threshold; and min_workers
\* whenever available memory does not cover the reserve plus one worker.
C19_TargetIsReferenceRule ==
  api.op = "calculate_optimal_workers" =>
    LET available == api.memory_info
        limit == monitor.worker_memory_limit_gb * MemUnit
        reserve == 4 * MemUnit
        floor == (available - reserve) \div limit
        clamped == IF floor < monitor.min_workers THEN monitor.min_workers
                   ELSE IF floor > monitor.max_workers THEN monitor.max_workers
                   ELSE floor
        lowered == IF clamped - 1 < monitor.min_workers
                     THEN monitor.min_workers ELSE clamped - 1
    IN /\ ~monitor.auto_scaling_enabled =>
            api.optimal_workers = monitor.min_workers
       /\ (/\ monitor.auto_scaling_enabled
           /\ available < monitor.memory_threshold_gb * MemUnit) =>
            api.optimal_workers = lowered
       /\ (/\ monitor.auto_scaling_enabled
           /\ available >= monitor.memory_threshold_gb * MemUnit) =>
            api.optimal_workers = clamped
       /\ available < reserve + limit =>
            api.optimal_workers = monitor.min_workers

\* A target that was lowered by one below the threshold and is still above
\* min_workers.
C19_Witness ==
  /\ api.op = "calculate_optimal_workers"
  /\ monitor.auto_scaling_enabled
  /\ api.memory_info < monitor.memory_threshold_gb * MemUnit
  /\ api.memory_info >=
       (4 + 2 * monitor.worker_memory_limit_gb) * MemUnit
  /\ api.optimal_workers > monitor.min_workers
  /\ api.optimal_workers < monitor.max_workers

\* ------------------------------------------- scale_workers (304-337)
\* The sequence ws without its element at position k.
RemoveAt(ws, k) == SubSeq(ws, 1, k - 1) \o SubSeq(ws, k + 1, Len(ws))

\* Lines 294-295: if process in self._active_workers: remove(process), which
\* removes the first occurrence.
RemoveWorker(ws, pid) ==
  IF \E k \in 1..Len(ws) : ws[k] = pid
    THEN RemoveAt(ws, CHOOSE k \in 1..Len(ws) :
                        ws[k] = pid /\ \A j \in 1..(k - 1) : ws[j] # pid)
    ELSE ws

\* scale_workers returns in the thread with locals f: to the loop that called
\* it, or to the caller of the monitor (pc = "ret").
MonitorReturns(f) == [f EXCEPT !.pc = f.cont]

\* Lines 317-332, the entry of scale_workers(target_workers) in the thread with
\* locals f when the list is active_workers: nothing to do when the count is
\* the target, else the loop that starts or stops workers.
ScaleWorkersEntry(f, active_workers, target_workers) ==
  LET current_workers == Len(active_workers)
      m == [f EXCEPT !.target_workers = target_workers,
                     !.current_workers = current_workers,
                     !.failures = <<>>, !.stopped = <<>>,
                     !.entry_workers = active_workers,
                     !.removed = <<>>, !.signalled = {}]
  IN IF current_workers = target_workers
       THEN MonitorReturns(m)
     ELSE IF current_workers < target_workers
       THEN [m EXCEPT !.pc = "sw_start", !.i = current_workers]
     ELSE [m EXCEPT !.pc = "sw_stop",
                    !.workers_to_stop = current_workers - target_workers]

\* scale_workers(target_workers), called on the monitor directly by thread th.
scale_workers(th, target_workers) ==
  /\ thread[th].pc = "idle"
  /\ thread' = [thread EXCEPT ![th] =
       ScaleWorkersEntry([IdleThread EXCEPT !.op = "scale_workers",
                                            !.missed = thread[th].missed],
                         monitor.active_workers, target_workers)]
  /\ UNCHANGED <<pipelineVars, chainVars, monitor, processes>>

\* The pid of the process a Popen gives: one no process has had.
FreshPids == {pid \in Pids : processes[pid] = "none"}

\* start_worker(worker_id), 220-262, in one step: Popen gives a new process,
\* which is appended to the list, or raises, which start_worker answers with
\* None.  No process can be spawned once the pids are used up.  The result is
\* <<monitor', processes', spawned>>.
StartWorker(worker_id, spawned) ==
  IF spawned /\ FreshPids # {}
    THEN LET pid == CHOOSE pid \in FreshPids : \A o \in FreshPids : pid <= o
         IN <<[monitor EXCEPT !.active_workers = Append(@, pid),
                              !.hostnames[pid] = worker_id],
              [processes EXCEPT ![pid] = "running"], TRUE>>
    ELSE <<monitor, processes, FALSE>>

\* A loop that a failed spawn ends: the exception leaves scale_workers.
ScaleStartWorkerAborts(th) ==
  /\ thread[th].pc = "sw_start"
  /\ LET f == thread[th]
         next == [f EXCEPT !.i = @ + 1,
                    !.pc = IF f.i + 1 < f.target_workers
                             THEN "sw_start" ELSE f.cont]
     IN \E spawned \in BOOLEAN :
          LET r == StartWorker(f.i + 1, spawned)
          IN /\ monitor' = r[1]
             /\ processes' = r[2]
             /\ thread' = [thread EXCEPT ![th] =
                  IF r[3] THEN next
                  ELSE [f EXCEPT !.failures = Append(@, "spawn"),
                                 !.missed = TRUE, !.pc = f.cont]]
  /\ UNCHANGED <<pipelineVars, chainVars>>

\* One round of the loop of lines 326-328: start_worker(i + 1).
ScaleStartWorker(th) ==
  /\ thread[th].pc = "sw_start"
  /\ LET f == thread[th]
         next == [f EXCEPT !.i = @ + 1,
                    !.pc = IF f.i + 1 < f.target_workers
                             THEN "sw_start" ELSE f.cont]
     IN \E spawned \in BOOLEAN :
          LET r == StartWorker(f.i + 1, spawned)
          IN /\ monitor' = r[1]
             /\ processes' = r[2]
             /\ thread' = [thread EXCEPT ![th] =
                  IF r[3] THEN next
                  ELSE [next EXCEPT !.failures = Append(@, "spawn"),
                                    !.missed = TRUE]]
  /\ UNCHANGED <<pipelineVars, chainVars>>

\* stop_worker has returned in the thread with locals f: the next round of the
\* loop of lines 333-337 or the end of scale_workers, or the next round of the
\* loop of stop_monitoring (453-454).
AfterStopWorker(f) ==
  IF f.after_stop = "sw_stop"
    THEN [f EXCEPT !.workers_to_stop = @ - 1, !.worker = NoId,
                   !.pc = IF f.workers_to_stop - 1 > 0 THEN "sw_stop"
                          ELSE f.cont]
    ELSE [f EXCEPT !.worker = NoId, !.pc = f.after_stop]

\* Lines 333-336: the last worker of the list is the one to stop.
ScaleStopWorker(th) ==
  /\ thread[th].pc = "sw_stop"
  /\ thread' = [thread EXCEPT ![th] =
       IF monitor.active_workers # <<>>
         THEN [@ EXCEPT !.pc = "st_terminate", !.after_stop = "sw_stop",
                        !.worker =
                          monitor.active_workers[Len(monitor.active_workers)]]
         ELSE AfterStopWorker([@ EXCEPT !.after_stop = "sw_stop"])]
  /\ UNCHANGED <<pipelineVars, chainVars, monitor, processes>>

\* Lines 277-281 and 300-302: process.terminate() sends SIGTERM; when it
\* raises, stop_worker returns False and the list is as it was.
StopWorkerTerminate(th) ==
  /\ thread[th].pc = "st_terminate"
  /\ LET f == thread[th]
     IN \E ok \in BOOLEAN :
          IF ok
            THEN /\ processes' = [processes EXCEPT ![f.worker] =
                                    IF @ = "running" THEN "terminating" ELSE @]
                 /\ thread' = [thread EXCEPT ![th] =
                      [f EXCEPT !.pc = "st_wait",
                                !.signalled = @ \cup {f.worker}]]
            ELSE /\ UNCHANGED processes
                 /\ thread' = [thread EXCEPT ![th] =
                      AfterStopWorker(
                        [f EXCEPT !.failures = Append(@, "stop"),
                                  !.stopped = Append(@, "failed")])]
  /\ UNCHANGED <<pipelineVars, chainVars, monitor>>

\* A stop that leaves the record of a force-killed worker in the list.
StopWorkerWaitKeepsKilled(th) ==
  /\ thread[th].pc = "st_wait"
  /\ LET f == thread[th]
     IN \E how \in {"graceful", "killed"} :
          /\ how = "killed" => processes[f.worker] # "exited"
          /\ processes' = [processes EXCEPT ![f.worker] = "exited"]
          /\ monitor' = [monitor EXCEPT !.active_workers =
               IF how = "graceful" THEN RemoveWorker(@, f.worker) ELSE @]
          /\ thread' = [thread EXCEPT ![th] =
               AfterStopWorker([f EXCEPT !.stopped = Append(@, how)])]
  /\ UNCHANGED <<pipelineVars, chainVars>>

\* Lines 283-302: wait(timeout=10) sees the process exit (graceful), or times
\* out, and then kill() and wait(timeout=5) end it (killed); in both cases the
\* process is removed from the list and stop_worker returns True.  When the
\* kill or the second wait raises (failed), stop_worker returns False and the
\* list is as it was.  A process that has exited already is seen at once.
StopWorkerWait(th) ==
  /\ thread[th].pc = "st_wait"
  /\ LET f == thread[th]
     IN \E how \in {"graceful", "killed", "failed"} :
          /\ how # "graceful" => processes[f.worker] # "exited"
          /\ IF how = "failed"
               THEN /\ UNCHANGED <<processes, monitor>>
                    /\ thread' = [thread EXCEPT ![th] =
                         AfterStopWorker(
                           [f EXCEPT !.failures = Append(@, "stop"),
                                     !.stopped = Append(@, how)])]
               ELSE /\ processes' = [processes EXCEPT ![f.worker] = "exited"]
                    /\ monitor' = [monitor EXCEPT !.active_workers =
                                     RemoveWorker(@, f.worker)]
                    /\ thread' = [thread EXCEPT ![th] =
                         AfterStopWorker(
                           [f EXCEPT !.stopped = Append(@, how),
                                     !.removed =
                                       IF \E k \in 1..Len(monitor.active_workers) :
                                            monitor.active_workers[k] = f.worker
                                         THEN Append(@, f.worker) ELSE @])]
  /\ UNCHANGED <<pipelineVars, chainVars>>

\* A worker process ends by itself; its record stays in the list until
\* cleanup_dead_workers (339-357) drops it.
WorkerExit(pid) ==
  /\ processes[pid] \in {"running", "terminating"}
  /\ processes' = [processes EXCEPT ![pid] = "exited"]
  /\ UNCHANGED <<pipelineVars, chainVars, monitor, thread>>

\* The caller of the monitor has the result.
MonitorReturn(th) ==
  /\ thread[th].pc = "ret"
  /\ thread' = [thread EXCEPT ![th].pc = "idle"]
  /\ UNCHANGED <<pipelineVars, chainVars, monitor, processes>>

\* SpecScale: scale_workers is called, one call after the other, with any
\* target from 0 to max_workers, while worker processes may end on their own.
InitScale ==
  /\ InitPipeline
  /\ InitChainManager
  /\ monitor \in {MemoryMonitor([DefaultSettings EXCEPT !.max_workers = n]) :
                    n \in 1 .. MaxWorkers}
  /\ thread = [th \in Threads |-> IdleThread]
  /\ processes = [pid \in Pids |-> "none"]

NextScale ==
  \/ (\E t \in 0 .. monitor.max_workers : scale_workers("api", t))
  \/ ScaleStartWorker("api")
  \/ ScaleStopWorker("api")
  \/ StopWorkerTerminate("api")
  \/ StopWorkerWait("api")
  \/ (\E pid \in Pids : WorkerExit(pid))
  \/ MonitorReturn("api")

SpecScale == InitScale /\ [][NextScale]_vars

C28_NoAutoChainForUnknownLanguage ==
  \A t \in 1..Len(transcripts) :
    transcripts[t].language = "unknown" =>
      /\ TranslationsOf(t) = {}
      /\ \A x \in TranslationIds :
           (x <= Len(translations) /\ translations[x].transcript_id = t) =>
             <<"translate_transcript", x>> \notin submitted

\* C29: no Translation row is left in an ambiguous state: a row in status
\* queued has had its task submitted, and a row whose submission failed is
\* marked failed.  Stated for the rows no process is about to submit (the
\* creating call has gone past its submission), which the claim implies.
C29_QueuedRowsAreSubmitted ==
  \A x \in 1..Len(translations) :
    (/\ translations[x].status = "queued"
     /\ \A p \in Procs :
          ~(proc[p].pc \in {"t_delay", "et_delay"} /\ proc[p].xid = x)) =>
      <<"translate_transcript", x>> \in submitted

\* C21: after stop_worker(handle) returns, the handle is no longer in the live
\* set, on every path: the process exited in the grace period, it had to be
\* force-killed, or the termination attempt itself failed.
C21_StopWorkerRemovesHandle ==
  [][\A th \in Threads :
       (/\ thread[th].pc \in {"st_terminate", "st_wait"}
        /\ thread'[th].pc \notin {"st_terminate", "st_wait"}) =>
         \A k \in 1..Len(monitor'.active_workers) :
           monitor'.active_workers[k] # thread[th].worker]_vars

\* C22: a reconcile that has to stop k workers stops the k most recently
\* started workers, the most recent first, and every earlier worker stays in
\* the live set: when scale_workers returns, the workers it removed are the
\* last k of the list it found, in reverse order, and the list is what it
\* found without them.
C22_StopsMostRecentFirst ==
  (/\ api.op = "scale_workers"
   /\ api.pc = "ret"
   /\ api.current_workers > api.target_workers) =>
    LET n == Len(api.entry_workers)
        k == api.current_workers - api.target_workers
    IN /\ api.removed = [j \in 1..k |-> api.entry_workers[n - j + 1]]
       /\ monitor.active_workers = SubSeq(api.entry_workers, 1, n - k)

\* The workers of the list whose process has not exited.
AliveWorkers ==
  {k \in 1..Len(monitor.active_workers) :
     processes[monitor.active_workers[k]] # "exited"}

\* C30: every reconcile compares its target with the number of workers that
\* are alive: the count scale_workers takes on entry is the number of workers
\* of the list whose process has not exited.
C30_ReconcileCountsAliveWorkers ==
  [][(api.pc = "idle" /\ api'.pc # "idle" /\ api'.op = "scale_workers") =>
       api'.current_workers = Cardinality(AliveWorkers)]_vars

\* ------------------------------------------ monitoring_loop (359-407)
\* Thread.is_alive() of the monitoring thread.
IsAlive == loop.pc # "idle"

\* The positions of a thread inside scale_workers and stop_worker.
ScalePcs == {"sw_start", "sw_stop", "st_terminate", "st_wait"}

\* cleanup_dead_workers, 339-357: the workers whose poll() is None, in order.
cleanup_dead_workers(active_workers) ==
  SelectSeq(active_workers, LAMBDA pid : processes[pid] # "exited")

\* The monitoring thread has returned from monitoring_loop.
ThreadFinished == [IdleThread EXCEPT !.op = "monitoring_loop"]

\* A loop that an exception of an iteration ends.
LoopIterationBreaks ==
  /\ loop.pc = "l_iter"
  /\ IF monitor.stop_event
       THEN /\ thread' = [thread EXCEPT !["loop"] = ThreadFinished]
            /\ UNCHANGED monitor
       ELSE \E raised \in BOOLEAN, available \in MemorySamples :
              IF raised
                THEN /\ thread' = [thread EXCEPT !["loop"] = ThreadFinished]
                     /\ UNCHANGED monitor
                ELSE LET alive_workers ==
                           cleanup_dead_workers(monitor.active_workers)
                         optimal_workers ==
                           calculate_optimal_workers(monitor, available)
                     IN /\ monitor' = [monitor EXCEPT
                                         !.active_workers = alive_workers]
                        /\ thread' = [thread EXCEPT !["loop"] =
                             IF Len(alive_workers) # optimal_workers
                               THEN ScaleWorkersEntry(
                                      [loop EXCEPT !.cont = "l_wait"],
                                      alive_workers, optimal_workers)
                               ELSE [loop EXCEPT !.pc = "l_wait"]]
  /\ UNCHANGED <<pipelineVars, chainVars, processes>>

\* Lines 370-407, the head of the loop and one iteration up to the call of
\* scale_workers: the loop ends when the stop event is set; else the memory is
\* sampled, the dead workers are dropped, the target is computed and, when the
\* count differs, scale_workers(optimal_workers) is entered.  An exception of
\* the iteration (raised) is caught at line 405.
LoopIteration ==
  /\ loop.pc = "l_iter"
  /\ IF monitor.stop_event
       THEN /\ thread' = [thread EXCEPT !["loop"] = ThreadFinished]
            /\ UNCHANGED monitor
       ELSE \E raised \in BOOLEAN, available \in MemorySamples :
              IF raised
                THEN /\ thread' = [thread EXCEPT !["loop"] =
                          [loop EXCEPT !.pc = "l_recover", !.raised = TRUE]]
                     /\ UNCHANGED monitor
                ELSE LET alive_workers ==
                           cleanup_dead_workers(monitor.active_workers)
                         optimal_workers ==
                           calculate_optimal_workers(monitor, available)
                     IN /\ monitor' = [monitor EXCEPT
                                         !.active_workers = alive_workers]
                        /\ thread' = [thread EXCEPT !["loop"] =
                             IF Len(alive_workers) # optimal_workers
                               THEN ScaleWorkersEntry(
                                      [loop EXCEPT !.cont = "l_wait"],
                                      alive_workers, optimal_workers)
                               ELSE [loop EXCEPT !.pc = "l_wait"]]
  /\ UNCHANGED <<pipelineVars, chainVars, processes>>

\* Lines 403 and 407: self._stop_event.wait(...) returns, after the interval
\* or because the event is set, and the loop is at its head again.
LoopWait ==
  /\ loop.pc \in {"l_wait", "l_recover"}
  /\ thread' = [thread EXCEPT !["loop"].pc = "l_iter"]
  /\ UNCHANGED <<pipelineVars, chainVars, monitor, processes>>

\* start_monitoring, 409-431: nothing when the monitoring thread is alive.
start_monitoring(th) ==
  /\ thread[th].pc = "idle"
  /\ thread' = [thread EXCEPT ![th] =
       [IdleThread EXCEPT !.op = "start_monitoring",
          !.pc = IF monitor.monitoring_thread # None /\ IsAlive THEN "ret"
                 ELSE IF monitor.min_workers > 0 THEN "sm_start"
                 ELSE "sm_thread"]]
  /\ UNCHANGED <<pipelineVars, chainVars, monitor, processes>>

\* Lines 425-427: for i in range(self.min_workers): self.start_worker(i + 1).
StartMonitoringWorker(th) ==
  /\ thread[th].pc = "sm_start"
  /\ LET f == thread[th]
     IN \E spawned \in BOOLEAN :
          LET r == StartWorker(f.i + 1, spawned)
          IN /\ monitor' = r[1]
             /\ processes' = r[2]
             /\ thread' = [thread EXCEPT ![th] =
                  [f EXCEPT !.i = @ + 1,
                            !.pc = IF f.i + 1 < monitor.min_workers
                                     THEN "sm_start" ELSE "sm_thread"]]
  /\ UNCHANGED <<pipelineVars, chainVars>>

\* Lines 429-431: the monitoring thread is created and started.
StartMonitoringThread(th) ==
  /\ thread[th].pc = "sm_thread"
  /\ ~IsAlive
  /\ monitor' = [monitor EXCEPT !.monitoring_thread = "loop"]
  /\ thread' = [thread EXCEPT
       ![th].pc = "ret",
       !["loop"] = [IdleThread EXCEPT !.op = "monitoring_loop",
                                      !.pc = "l_iter"]]
  /\ UNCHANGED <<pipelineVars, chainVars, processes>>

\* stop_monitoring, 433-450: the stop event is set; the monitoring thread is
\* joined when it is alive, else the list is copied for the loop of 453-454.
stop_monitoring(th) ==
  /\ thread[th].pc = "idle"
  /\ monitor' = [monitor EXCEPT !.stop_event = TRUE]
  /\ thread' = [thread EXCEPT ![th] =
       IF monitor.monitoring_thread # None /\ IsAlive
         THEN [IdleThread EXCEPT !.op = "stop_monitoring", !.pc = "sp_join"]
         ELSE [IdleThread EXCEPT !.op = "stop_monitoring", !.pc = "sp_stop",
                                 !.snapshot = monitor.active_workers]]
  /\ UNCHANGED <<pipelineVars, chainVars, processes>>

\* Line 450: join(timeout=10) returns because the monitoring thread has ended,
\* or because the ten seconds are over while the thread is inside
\* scale_workers (two seconds of sleep for a start, up to fifteen for a stop);
\* line 453 then copies the list.
StopMonitoringJoin(th) ==
  /\ thread[th].pc = "sp_join"
  /\ ~IsAlive \/ loop.pc \in ScalePcs
  /\ thread' = [thread EXCEPT ![th].pc = "sp_stop",
                              ![th].snapshot = monitor.active_workers]
  /\ UNCHANGED <<pipelineVars, chainVars, monitor, processes>>

\* Lines 453-454: for worker in self._active_workers[:]: stop_worker(worker).
StopMonitoringWorker(th) ==
  /\ thread[th].pc = "sp_stop"
  /\ LET f == thread[th]
     IN thread' = [thread EXCEPT ![th] =
          IF f.snapshot = <<>>
            THEN [f EXCEPT !.pc = "ret"]
            ELSE [f EXCEPT !.pc = "st_terminate", !.after_stop = "sp_stop",
                           !.worker = Head(f.snapshot),
                           !.snapshot = Tail(f.snapshot)]]
  /\ UNCHANGED <<pipelineVars, chainVars, monitor, processes>>

\* max_workers of the monitor whose loop is run.
MaxLoopWorkers == 2

\* SpecLoop: a caller starts and stops the monitoring, the monitoring thread
\* runs its loop, and worker processes may end on their own.

InitLoop ==
  /\ InitPipeline
  /\ InitChainManager
  /\ monitor \in {MemoryMonitor([DefaultSettings EXCEPT
                                   !.max_workers = MaxLoopWorkers,
                                   !.min_workers = n]) : n \in 0 .. 1}
  /\ thread = [th \in Threads |-> IdleThread]
  /\ processes = [pid \in Pids |-> "none"]

NextLoop ==
  \/ start_monitoring("api")
  \/ StartMonitoringWorker("api")
  \/ StartMonitoringThread("api")
  \/ stop_monitoring("api")
  \/ StopMonitoringJoin("api")
  \/ StopMonitoringWorker("api")
  \/ StopWorkerTerminate("api")
  \/ StopWorkerWait("api")
  \/ MonitorReturn("api")
  \/ LoopIteration
  \/ LoopWait
  \/ ScaleStartWorker("loop")
  \/ ScaleStopWorker("loop")
  \/ StopWorkerTerminate("loop")
  \/ StopWorkerWait("loop")
  \/ (\E pid \in Pids : WorkerExit(pid))

SpecLoop == InitLoop /\ [][NextLoop]_vars

\* C23: the monitoring loop never exits because of an exception in an
\* iteration.  The monitoring thread ends only in a step that finds the stop
\* event set; an iteration that raises leaves the thread in the recovery wait,
\* from which it comes back to the head of the loop; and at the head of the
\* loop, with the stop event clear, the thread performs an iteration.
C23_LoopSurvivesExceptions ==
  [][/\ (IsAlive /\ ~IsAlive') => monitor.stop_event
     /\ (loop'.raised /\ ~loop.raised) =>
          (loop.pc = "l_iter" /\ loop'.pc = "l_recover")
     /\ (loop.pc = "l_recover" /\ loop' # loop) => loop'.pc = "l_iter"
     /\ (loop.pc = "l_iter" /\ loop' # loop /\ ~monitor.stop_event) =>
          loop'.pc \in {"l_recover", "l_wait"} \cup ScalePcs]_vars

\* After an iteration that raised, the monitoring thread is in a later
\* iteration, inside scale_workers, and no stop was asked for.
C23_Witness ==
  /\ loop.raised
  /\ loop.pc \in ScalePcs
  /\ ~monitor.stop_event

\* C24: once stop_monitoring has returned, every worker the manager started is
\* torn down, the live set is empty and no worker is started afterwards, also
\* when the stop arrives while the monitoring thread is inside a reconcile.
C24_StopTearsDownEverything ==
  [][(api.op = "stop_monitoring" /\ api.pc \in {"ret", "idle"}) =>
       /\ monitor.active_workers = <<>>
       /\ \A pid \in Pids : processes[pid] \in {"none", "exited"}
       /\ \A pid \in Pids : processes[pid] = "none" => processes'[pid] = "none"
    ]_vars

\* --------------------------------------- ProcessingChainManager (62-246)
\* settings.max_workers of the chain manager's configuration.
MaxChainWorkers == 2

\* The worker numbers whose key is in self.workers.
ChainWorkerKeys == {n \in Pids : chain.workers[n] # NoId}

\* ChainWorkerProcess.is_running, 42-44: self.process.poll() is None.
IsRunning(pid) == processes[pid] \in {"running", "terminating"}

\* get_queued_files_count, 78-88: the number of AudioFile rows in status
\* queued, 0 when the query raises.
get_queued_files_count(ok) ==
  IF ok THEN Cardinality({a \in AudioIds : audio[a] = "queued"}) ELSE 0

\* should_start_new_worker, 90-116, on the values it reads.
should_start_new_worker(available_memory, queued_files, active_workers) ==
  /\ ~(available_memory < min_free_memory_gb)
  /\ ~(queued_files = 0)
  /\ ~(active_workers >= MaxChainWorkers)

\* cleanup_inactive_workers, 159-168: the keys of workers that do not run are
\* deleted.
cleanup_inactive_workers(workers) ==
  [n \in Pids |-> IF workers[n] # NoId /\ IsRunning(workers[n])
                    THEN workers[n] ELSE NoId]

\* start(), 221-230: nothing when is_running is set; else it is set and a new
\* monitoring thread is created and started.
start(th) ==
  /\ cthread[th].pc = "idle"
  /\ IF chain.is_running
       THEN /\ cthread' = [cthread EXCEPT ![th] =
                 [IdleChainThread EXCEPT !.op = "start", !.pc = "ret"]]
            /\ UNCHANGED chain
       ELSE \E t \in ChainLoops :
              /\ cthread[t].pc = "idle"
              /\ t = "loop2" => cthread["loop1"].pc # "idle"
              /\ chain' = [chain EXCEPT !.is_running = TRUE,
                                        !.monitor_thread = t]
              /\ cthread' = [cthread EXCEPT
                   ![th] = [IdleChainThread EXCEPT !.op = "start",
                                                   !.pc = "ret"],
                   ![t] = [IdleChainThread EXCEPT !.op = "monitor_and_scale",
                                                  !.pc = "m_iter"]]
  /\ UNCHANGED <<pipelineVars, monitor, thread, processes>>

\* The keys of the set ks in increasing order.
RECURSIVE KeysInOrder(_)
KeysInOrder(ks) ==
  IF ks = {} THEN <<>>
  ELSE LET n == CHOOSE n \in ks : \A o \in ks : n <= o
       IN <<n>> \o KeysInOrder(ks \ {n})

\* stop(), 232-236: is_running is cleared and the iteration over
\* self.workers.values() begins.
stop(th) ==
  /\ cthread[th].pc = "idle"
  /\ chain' = [chain EXCEPT !.is_running = FALSE]
  /\ cthread' = [cthread EXCEPT ![th] =
       [IdleChainThread EXCEPT !.op = "stop", !.pc = "cs_terminate",
                               !.pending = KeysInOrder(ChainWorkerKeys),
                               !.size = Cardinality(ChainWorkerKeys)]]
  /\ UNCHANGED <<pipelineVars, monitor, thread, processes>>

\* Lines 238-240 and ChainWorkerProcess.terminate, 47-59: the next worker of
\* the iteration is terminated; its process ends, after the wait or by the
\* kill, unless terminate() or kill() raises, which is logged.  The iteration
\* raises RuntimeError when the dict has changed its size meanwhile, and
\* stop() ends with that exception.
StopTerminateWorker(th) ==
  /\ cthread[th].pc = "cs_terminate"
  /\ LET f == cthread[th]
     IN IF Cardinality(ChainWorkerKeys) # f.size
          THEN /\ cthread' = [cthread EXCEPT ![th] =
                    [f EXCEPT !.pc = "ret", !.raised = TRUE]]
               /\ UNCHANGED processes
        ELSE IF f.pending = <<>>
          THEN /\ cthread' = [cthread EXCEPT ![th] =
                    [f EXCEPT !.pc = "cs_join"]]
               /\ UNCHANGED processes
        ELSE LET pid == chain.workers[Head(f.pending)]
             IN /\ cthread' = [cthread EXCEPT ![th] =
                     [f EXCEPT !.pending = Tail(f.pending)]]
                /\ \E ok \in BOOLEAN :
                     processes' =
                       IF ok /\ pid # NoId
                         THEN [processes EXCEPT ![pid] = "exited"]
                         ELSE processes
  /\ UNCHANGED <<pipelineVars, monitor, thread, chain>>

\* Lines 242-246: join(timeout=30) of the monitoring thread returns, because
\* the thread has ended or because the time is over while the thread sleeps
\* or starts a worker, and the dict is cleared.
StopJoin(th) ==
  /\ cthread[th].pc = "cs_join"
  /\ \/ chain.monitor_thread = None
     \/ /\ chain.monitor_thread # None
        /\ cthread[chain.monitor_thread].pc # "m_iter"
  /\ chain' = [chain EXCEPT !.workers = [n \in Pids |-> NoId]]
  /\ cthread' = [cthread EXCEPT ![th].pc = "ret"]
  /\ UNCHANGED <<pipelineVars, monitor, thread, processes>>

\* The caller of the chain manager has the result.
ChainManagerReturn(th) ==
  /\ cthread[th].pc = "ret"
  /\ cthread' = [cthread EXCEPT ![th].pc = "idle"]
  /\ UNCHANGED <<pipelineVars, monitor, thread, processes, chain>>

\* monitor_and_scale, 187-194: the thread ends when is_running is clear; else
\* the iteration drops the workers that do not run and evaluates
\* should_start_new_worker.  An exception of the iteration (raised) is caught
\* at line 202.
MonitorAndScaleCheck(t) ==
  /\ cthread[t].pc = "m_iter"
  /\ LET f == cthread[t]
     IN IF ~chain.is_running
          THEN /\ cthread' = [cthread EXCEPT ![t] =
                    [IdleChainThread EXCEPT !.op = "monitor_and_scale"]]
               /\ UNCHANGED chain
        ELSE \E raised \in BOOLEAN, available_memory \in AvailableGb,
                ok \in BOOLEAN :
               IF raised
                 THEN /\ cthread' = [cthread EXCEPT ![t] =
                           [f EXCEPT !.pc = "m_recover"]]
                      /\ UNCHANGED chain
                 ELSE LET workers == cleanup_inactive_workers(chain.workers)
                          queued_files == get_queued_files_count(ok)
                          active_workers ==
                            Cardinality({n \in Pids : workers[n] # NoId})
                      IN /\ chain' = [chain EXCEPT !.workers = workers]
                         /\ cthread' = [cthread EXCEPT ![t] =
                              IF should_start_new_worker(
                                   available_memory, queued_files,
                                   active_workers)
                                THEN [f EXCEPT
                                        !.available_memory = available_memory,
                                        !.queued_files = queued_files,
                                        !.active_workers = active_workers,
                                        !.pc = "m_start"]
                                ELSE [f EXCEPT !.pc = "m_sleep"]]
  /\ UNCHANGED <<pipelineVars, monitor, thread, processes>>

\* start_chain_worker, 118-157: the worker is named by the size of the dict
\* plus one, its process is created and stored under that key; an exception
\* of Popen is answered with None.
start_chain_worker(t) ==
  /\ cthread[t].pc = "m_start"
  /\ \E spawned \in BOOLEAN :
       IF spawned /\ FreshPids # {}
         THEN LET worker_id == Cardinality(ChainWorkerKeys) + 1
                  pid == CHOOSE pid \in FreshPids :
                           \A o \in FreshPids : pid <= o
              IN /\ worker_id \in Pids
                 /\ processes' = [processes EXCEPT ![pid] = "running"]
                 /\ chain' = [chain EXCEPT !.workers[worker_id] = pid]
                 /\ cthread' = [cthread EXCEPT ![t].pc = "m_sleep",
                                               ![t].started = @ + 1]
         ELSE /\ cthread' = [cthread EXCEPT ![t].pc = "m_sleep"]
              /\ UNCHANGED <<processes, chain>>
  /\ UNCHANGED <<pipelineVars, monitor, thread>>

\* Lines 200 and 204: time.sleep(...) ends and the loop is at its head again,
\* the values of the iteration are gone.
MonitorAndScaleSleep(t) ==
  /\ cthread[t].pc \in {"m_sleep", "m_recover"}
  /\ cthread' = [cthread EXCEPT ![t] =
       [IdleChainThread EXCEPT !.op = "monitor_and_scale", !.pc = "m_iter"]]
  /\ UNCHANGED <<pipelineVars, monitor, thread, processes, chain>>

\* SpecChainManager: files are uploaded in full-chain mode (process 1), a
\* caller starts and stops the chain manager, its monitoring threads run, and
\* worker processes may end on their own.
NextChainManager ==
  \/ (\E a \in AudioIds : upload_audio_file(1, a))
  \/ UploadEnqueueChain(1)
  \/ UploadSetQueued(1)
  \/ TaskReturn(1)
  \/ start("api")
  \/ stop("api")
  \/ StopTerminateWorker("api")
  \/ StopJoin("api")
  \/ ChainManagerReturn("api")
  \/ (\E t \in ChainLoops : MonitorAndScaleCheck(t))
  \/ (\E t \in ChainLoops : start_chain_worker(t))
  \/ (\E t \in ChainLoops : MonitorAndScaleSleep(t))
  \/ (\E pid \in Pids : WorkerExit(pid))

SpecChainManager == Init /\ [][NextChainManager]_vars

\* C25: for a manager instance at most one monitoring loop is running at any
\* time, under every sequence and interleaving of start and stop calls.
C25_AtMostOneLoop ==
  Cardinality({t \in ChainLoops : cthread[t].pc # "idle"}) <= 1

\* C26: worker identifiers are unique per manager instance: starting a worker
\* never gives it the worker_id of a worker that is still live, so a start
\* never replaces the record of a live worker.
C26_StartKeepsLiveRecords ==
  [][\A n \in Pids :
       (/\ chain.workers[n] # NoId
        /\ chain'.workers[n] # NoId
        /\ chain'.workers[n] # chain.workers[n]) =>
         ~IsRunning(chain.workers[n])]_vars

\* The chain worker processes that run.
RunningChainWorkers == {pid \in Pids : IsRunning(pid)}

\* C27: the chain manager starts a new worker in an iteration only if, at that
\* moment, the available memory is at least the minimum, the number of queued
\* files is not zero and the number of running chain workers is below
\* max_workers; an iteration starts at most one worker.
C27_StartOnlyWhenAdmitted ==
  [][\A t \in ChainLoops :
       /\ (cthread[t].pc = "m_start" /\ processes' # processes) =>
            /\ cthread[t].available_memory >= min_free_memory_gb
            /\ cthread[t].queued_files # 0
            /\ Cardinality(RunningChainWorkers) < MaxChainWorkers
       /\ cthread'[t].started <= 1]_vars

\* C31: start_worker never raises.  A spawn that fails leaves the list of
\* workers and the processes as they were, and the reconcile pass goes on
\* with its next round; a reconcile that finds fewer workers than its target
\* starts at the first missing one, so that a later reconcile whose spawns
\* all succeed returns with the target number of workers.
C31_SpawnFailureIsAbsorbed ==
  [][/\ \A th \in Threads :
          (/\ thread[th].pc = "sw_start"
           /\ Len(thread'[th].failures) > Len(thread[th].failures)) =>
            /\ monitor' = monitor
            /\ processes' = processes
            /\ thread'[th].i = thread[th].i + 1
            /\ thread'[th].pc =
                 IF thread'[th].i < thread[th].target_workers
                   THEN "sw_start" ELSE thread[th].cont
     /\ (/\ api.pc = "idle"
         /\ api'.op = "scale_workers"
         /\ api'.pc # "idle"
         /\ Len(monitor.active_workers) < api'.target_workers) =>
          /\ api'.pc = "sw_start"
          /\ api'.i = Len(monitor.active_workers)
     /\ (/\ api'.op = "scale_workers"
         /\ api'.pc = "ret"
         /\ api'.missed
         /\ api'.failures = <<>>
         /\ api'.current_workers < api'.target_workers) =>
          Len(monitor'.active_workers) = api'.target_workers]_vars

\* After a reconcile that missed a worker because a spawn failed, a later
\* reconcile has started the missing workers and returned with its target.
C31_Witness ==
  /\ api.op = "scale_workers"
  /\ api.pc = "ret"
  /\ api.missed
  /\ api.failures = <<>>
  /\ api.current_workers < api.target_workers
  /\ Len(monitor.active_workers) = api.target_workers

\* SpecStages: one process uploads files, runs transcribe_audio, calls
\* enqueue_translation and enqueue_summary, and invokes the translation and
\* summarization stages with any id, of a row that exists or not, one call
\* after the other.
NextStages ==
  \/ UploadStep(1)
  \/ (\E a \in AudioIds : transcribe_audio(1, a))
  \/ TranscribeBody(1)
  \/ EnqueueTranslationStep(1)
  \/ EnqueueSummaryStep(1)
  \/ (\E x \in TranslationIds : translate_transcript(1, x))
  \/ TranslateBody(1)
  \/ (\E s \in SummaryIds : summarize_translation(1, s))
  \/ SummarizeBody(1)
  \/ TaskReturn(1)

SpecStages == Init /\ [][NextStages]_vars

\* Process p is invoked, in this step, with the id of a row that is missing.
InvokedOnMissingRow(p) ==
  /\ proc[p].pc = "idle"
  /\ proc'[p].pc # "idle"
  /\ \/ proc'[p].op = "transcribe_audio" /\ audio[proc'[p].aid] = "absent"
     \/ /\ proc'[p].op = "translate_transcript"
        /\ proc'[p].xid > Len(translations)
     \/ /\ proc'[p].op = "summarize_translation"
        /\ proc'[p].sid > Len(summaries)

\* C32: a stage invoked with an id whose row does not exist is a no-op: the
\* invocation returns None without raising, and neither its entry nor its
\* return changes a row of the store or submits a task.
C32_MissingRowIsNoOp ==
  [][\A p \in Procs :
       /\ InvokedOnMissingRow(p) =>
            /\ proc'[p].pc = "ret"
            /\ proc'[p].ret = <<None>>
            /\ proc'[p].faults = {}
            /\ proc'[p].log = "not found"
            /\ store' = store
            /\ submitted' = submitted
       /\ (proc[p].log = "not found" /\ proc'[p] # proc[p]) =>
            /\ proc'[p] = IdleProc
            /\ store' = store
            /\ submitted' = submitted]_vars

\* summarize_translation has returned from an invocation with the id of a
\* Summary that does not exist, while a Translation row exists.
C32_Witness ==
  /\ proc[1].op = "summarize_translation"
  /\ proc[1].pc = "ret"
  /\ proc[1].log = "not found"
  /\ proc[1].sid > Len(summaries)
  /\ Len(translations) > 0

\* C33: the translation stage, the summarization stage, enqueue_translation
\* and enqueue_summary leave every AudioFile row and every Transcript row
\* unchanged, in every step they take, on success and on failure.
C33_ChildStagesKeepParents ==
  [][\A p \in Procs :
       (/\ proc'[p] # proc[p]
        /\ {proc[p].op, proc'[p].op} \cap
             {"translate_transcript", "summarize_translation",
              "enqueue_translation", "enqueue_summary"} # {}) =>
         /\ audio' = audio
         /\ transcripts' = transcripts]_vars

\* The translation stage has failed and its handler has marked the
\* Translation failed, while the AudioFile and its Transcript are done.
C33_Witness ==
  /\ proc[1].op = "translate_transcript"
  /\ proc[1].pc = "ret"
  /\ proc[1].log = "failed"
  /\ translations[proc[1].xid].status = "failed"
  /\ transcripts[translations[proc[1].xid].transcript_id].status = "done"
  /\ \E a \in AudioIds : audio[a] = "done"

\* ------------------------------------------------------------------------
\* The manual scale request beside the monitoring loop.
\* routers/monitoring.py 106-136: POST /workers/scale answers 400 for a target
\* outside min_workers .. max_workers and otherwise calls scale_workers on the
\* shared monitor, in the thread of the request.
\* ------------------------------------------------------------------------

\* The endpoint with a target that passes the test of line 113.
ManualScale ==
  \E target_workers \in monitor.min_workers .. monitor.max_workers :
    scale_workers("api", target_workers)

\* The largest max_workers of the monitors that are scaled by hand.
MaxManualWorkers == 1

InitManual ==
  /\ InitPipeline
  /\ InitChainManager
  /\ monitor = MemoryMonitor([DefaultSettings EXCEPT
                                !.max_workers = MaxManualWorkers,
                                !.min_workers = 1])
  /\ thread = [th \in Threads |-> IdleThread]
  /\ processes = [pid \in Pids |-> "none"]

\* The monitor is started and scaled by hand while its loop runs; it is not
\* stopped.
NextManual ==
  \/ start_monitoring("api")
  \/ StartMonitoringWorker("api")
  \/ StartMonitoringThread("api")
  \/ ManualScale
  \/ ScaleStartWorker("api")
  \/ ScaleStopWorker("api")
  \/ StopWorkerTerminate("api")
  \/ StopWorkerWait("api")
  \/ MonitorReturn("api")
  \/ LoopIteration
  \/ LoopWait
  \/ ScaleStartWorker("loop")
  \/ ScaleStopWorker("loop")
  \/ StopWorkerTerminate("loop")
  \/ StopWorkerWait("loop")
  \/ (\E pid \in Pids : WorkerExit(pid))

SpecManual == InitManual /\ [][NextManual]_vars

\* C34: in every reachable state the number of live worker processes, started
\* by the manager and not yet exited, is at most max_workers, under any
\* interleaving of the monitoring loop's reconcile with a manual scale request
\* of a valid target and with worker exits.
C34_LiveWorkersWithinMax ==
  Cardinality({pid \in Pids : IsRunning(pid)}) <= monitor.max_workers

\* C35: the status of an AudioFile never moves back to queued: once a worker
\* has set it to processing, done or failed, no later write sets it to queued,
\* under any interleaving of the upload handler, which writes queued after the
\* submission, with the worker that runs the submitted task.
C35_NeverBackToQueued ==
  [][\A a \in AudioIds :
       audio[a] \in {"processing", "done", "failed"} => audio'[a] # "queued"]_vars

\* ------------------------------------------------------------------------
\* Redelivery of the transcription task.
\* tasks.py 56-64: task_acks_late = True: a task is acknowledged when it
\* returns, so the task of a worker that dies is delivered again.
\* ------------------------------------------------------------------------

\* The worker process is killed (out of memory, time limit, SIGKILL) while
\* transcribe_audio runs, after the commit of its Transcript row (160-166).
\* Nothing of the task runs any more, its handlers included; the store keeps
\* what was committed and the task stays in the queue.
WorkerKilled(p) ==
  /\ proc[p].op = "transcribe_audio"
  /\ proc[p].pc \notin {"idle", "ret"}
  /\ proc[p].tid # NoId
  /\ proc' = [proc EXCEPT ![p] = IdleProc]
  /\ UNCHANGED <<store, submitted, committedDone>>
  /\ UNCHANGED monitorVars

\* SpecRedelivery: an API caller (process 1) uploads; a worker (process 2)
\* runs the transcription tasks the broker delivers, and may be killed.  The
\* broker keeps delivering and the worker keeps running what it was given.
NextRedelivery ==
  \/ UploadStep(1)
  \/ TaskReturn(1)
  \/ DeliverTranscribe(2)
  \/ TranscribeBody(2)
  \/ TaskReturn(2)
  \/ WorkerKilled(2)

SpecRedelivery ==
  /\ Init
  /\ [][NextRedelivery]_vars
  /\ WF_vars(DeliverTranscribe(2))
  /\ WF_vars(TranscribeBody(2))
  /\ WF_vars(TaskReturn(2))

\* C36: every AudioFile whose transcription task is delivered to the worker
\* eventually reaches done or failed; and when the worker was killed after the
\* Transcript row was committed in processing (the AudioFile and its
\* Transcript are in processing and no task runs), the task is delivered
\* again and a later invocation brings the AudioFile and its Transcript out
\* of processing.
C36_DeliveredEventuallyTerminal ==
  \A a \in AudioIds :
    /\ (/\ proc[2].op = "transcribe_audio"
        /\ proc[2].pc # "idle"
        /\ proc[2].aid = a) ~> (audio[a] \in {"done", "failed"})
    /\ (/\ proc[2].pc = "idle"
        /\ audio[a] = "processing"
        /\ \E t \in TranscriptsOf(a) : transcripts[t].status = "processing") ~>
         /\ audio[a] \in {"done", "failed"}
         /\ \A t \in TranscriptsOf(a) : transcripts[t].status # "processing"

\* C37: a MemoryMonitor that was stopped and is started again resumes
\* scaling: the monitoring thread that start_monitoring starts finds the stop
\* event clear, so that its loop iterates until the next stop_monitoring
\* rather than ending at its first test of the event.
C37_RestartResumesLoop ==
  [][(~IsAlive /\ IsAlive') => ~monitor'.stop_event]_vars

\* C38: after stop() has returned, every chain worker process the manager ever
\* started has exited or been terminated: none runs on, with or without a
\* record in the dict, whatever the monitor thread's cleanup and worker start
\* did in between.
C38_StopLeavesNoWorker ==
  (/\ cthread["api"].op = "stop"
   /\ cthread["api"].pc = "ret"
   /\ ~cthread["api"].raised) => RunningChainWorkers = {}

\* C39: process_audio_file_chain returns status completed only with an empty
\* errors list and with every stage it started in status done: whenever the
\* Translation or the Summary could not be created, submitted or brought to
\* done, the returned status is failed.
C39_CompletedMeansNoError ==
  \A p \in Procs :
    (/\ proc[p].op = "process_audio_file_chain"
     /\ proc[p].pc = "ret"
     /\ proc[p].ret[1] = "completed") =>
      /\ proc[p].ret[3] = 0
      /\ proc[p].xid # NoId => translations[proc[p].xid].status = "done"
      /\ proc[p].sid # NoId => summaries[proc[p].sid].status = "done"

\* C40: in full-chain mode one invocation of process_audio_file_chain creates
\* at most one Translation row for its Transcript and at most one Summary row
\* for that Translation, and each of them goes through its stage exactly
\* once.  When the chain, after its own transcription has created the
\* Transcript, inserts its Translation, the Transcript has no Translation yet;
\* when it inserts its Summary, the Translation has no Summary yet; and when
\* it runs a stage itself, no task that would run the stage again is queued.
C40_ChainCreatesOneOfEach ==
  [][\A p \in Procs :
       (proc[p].op = "process_audio_file_chain" /\ proc'[p] # proc[p]) =>
         /\ (/\ proc[p].pc = "et_insert"
             /\ proc[p].log = "done"
             /\ Len(translations') > Len(translations)) =>
              TranslationsOf(proc[p].tid) = {}
         /\ (/\ proc[p].pc = "es_insert"
             /\ Len(summaries') > Len(summaries)) =>
              SummariesOf(proc[p].xid) = {}
         /\ (proc[p].pc = "c_enqueued_tr" /\ proc'[p].pc # "ret") =>
              <<"translate_transcript", proc[p].ret[2]>> \notin submitted
         /\ (proc[p].pc = "c_enqueued_sm" /\ proc'[p].pc # "ret") =>
              <<"summarize_translation", proc[p].ret[2]>> \notin submitted]_vars

=============================================================================
